---- MODULE Spec2Model ----
(***************************************************************************)
(* Framelytics: the aggregation engine SEOAnalyzerService.analyzeNodes     *)
(* (src/utils/seo-analyzer.service.fixed.ts).  A call walks the registered *)
(* checkers in registration order, enriches each checker's issues through  *)
(* the host (framer.getRect, framer.zoomIntoView), folds them into the     *)
(* category map, scores every category and computes the weighted overall   *)
(* score in IEEE-754 double arithmetic.                                    *)
(***************************************************************************)
EXTENDS Integers, Sequences, FiniteSets, TLC

(***************************************************************************)
(* Bounds of the explored input space.                                     *)
(***************************************************************************)
\* longest issue list one checker returns
MaxIssues == 6
\* how many times the caller invokes analyzeNodes on the same service
MaxCalls == 2

\* image nodes handed to the alt-text check of the images checker
MaxImages == 7

(***************************************************************************)
(* Types (src/types/seo-types.ts).                                         *)
(***************************************************************************)
SEOCategory ==
    {"metadata", "headings", "images", "links", "structure", "content",
     "performance", "accessibility", "mobile", "social", "security",
     "favicon", "schema", "international"}

SEOIssuePriority == {"critical", "important", "nice-to-have"}

SEOIssueType == {"error", "warning", "info", "success"}

\* key order of the category map built at the top of analyzeNodes
CategoryOrder ==
    <<"metadata", "headings", "images", "links", "structure", "content",
      "performance", "accessibility", "mobile", "social", "security",
      "favicon", "schema", "international">>

\* key order of the analyzers record: the checker-registration order
AnalyzerOrder ==
    <<"metadata", "structure", "social", "images", "content",
      "accessibility", "links", "performance", "mobile", "security",
      "schema">>

AnalyzerCategories == {AnalyzerOrder[i] : i \in 1..Len(AnalyzerOrder)}

Max(a, b) == IF a >= b THEN a ELSE b

\* faulty variant: the deductions are not floored at 0
calculateScoreForCategory_NoFloor(issues) ==
    IF Len(issues) = 0 THEN 100
    ELSE 100 - 20 * Len(SelectSeq(issues, LAMBDA issue : issue.priority = "critical"))
             - 10 * Len(SelectSeq(issues, LAMBDA issue : issue.priority = "important"))
             - 5 * Len(SelectSeq(issues, LAMBDA issue : issue.priority = "nice-to-have"))

\* faulty variant: the type-based scoring of the earlier engine
\* (src/utils/seo-analyzer.service.ts), 25 per error and 10 per warning
calculateScoreForCategory_ByType(issues) ==
    IF Len(issues) = 0 THEN 100
    ELSE Max(0, 100 - 25 * Len(SelectSeq(issues, LAMBDA issue : issue.type = "error"))
                    - 10 * Len(SelectSeq(issues, LAMBDA issue : issue.type = "warning")))

(***************************************************************************)
(* calculateScoreForCategory: 100 minus 20 / 10 / 5 per critical /         *)
(* important / nice-to-have issue, floored at 0; an empty list scores 100. *)
(***************************************************************************)
calculateScoreForCategory(issues) ==
    IF Len(issues) = 0 THEN 100
    ELSE LET criticalIssues == SelectSeq(issues, LAMBDA issue : issue.priority = "critical")
             importantIssues == SelectSeq(issues, LAMBDA issue : issue.priority = "important")
             niceToHaveIssues == SelectSeq(issues, LAMBDA issue : issue.priority = "nice-to-have")
         IN Max(0, 100 - Len(criticalIssues) * 20
                       - Len(importantIssues) * 10
                       - Len(niceToHaveIssues) * 5)

(***************************************************************************)
(* JavaScript numbers are IEEE-754 doubles.  Every value the overall-score *)
(* computation meets is 0 or a double of magnitude >= 0.5 that lies within *)
(* a few ulps of a multiple of 1/10, so it is held exactly as the pair     *)
(* <<t, e>> with                                                           *)
(*        x = t/10 + e * 2^-52 / 10       (t tenths, e the rounding error) *)
(* The literals 1.5, 1, 0.5 are exact; the double nearest to 1.2 is        *)
(* 1.2 - 0.2 * 2^-52 and the double nearest to 0.8 is 0.8 + 0.2 * 2^-52.   *)
(***************************************************************************)
categoryWeights ==
    [metadata |-> <<15, 0>>, headings |-> <<12, -2>>, structure |-> <<12, -2>>,
     links |-> <<12, -2>>, content |-> <<12, -2>>, images |-> <<10, 0>>,
     social |-> <<10, 0>>, accessibility |-> <<10, 0>>, mobile |-> <<10, 0>>,
     performance |-> <<10, 0>>, security |-> <<8, 2>>, favicon |-> <<5, 0>>,
     schema |-> <<10, 0>>, international |-> <<10, 0>>]

\* categoryWeights[category] || 1
WeightOf(category) ==
    IF category \in DOMAIN categoryWeights /\ categoryWeights[category] # <<0, 0>>
    THEN categoryWeights[category] ELSE <<10, 0>>

RECURSIVE Pow2(_)
Pow2(n) == IF n = 0 THEN 1 ELSE 2 * Pow2(n - 1)

\* 2^n mod 10 for n >= 1, and 2^n mod 20 for n >= 2
Pow2Mod10(n) == CASE n % 4 = 0 -> 6 [] n % 4 = 1 -> 2 [] n % 4 = 2 -> 4 [] OTHER -> 8

Pow2Mod20(n) == CASE n % 4 = 0 -> 16 [] n % 4 = 1 -> 12 [] n % 4 = 2 -> 4 [] OTHER -> 8

\* 2^k in tenths, for the binades -1..12 the computation stays in
BinadeFloor(k) == IF k = -1 THEN 5 ELSE 10 * Pow2(k)

AtLeastPow2(t, e, k) == t > BinadeFloor(k) \/ (t = BinadeFloor(k) /\ e >= 0)

\* the k with 2^k <= x < 2^(k+1)
Binade(t, e) == CHOOSE k \in -1..11 : AtLeastPow2(t, e, k) /\ ~AtLeastPow2(t, e, k + 1)

(***************************************************************************)
(* Round-to-nearest, ties-to-even, of the real number t/10 + e*2^-52/10    *)
(* (positive) to a double: the doubles of binade k are the multiples of    *)
(* 2^(k-52), i.e. of M = 10*2^k error units.  t*2^52 = q*M + rp*2^k with   *)
(* rp = t*2^(52-k) mod 10, so only (rp*2^k + e) / M has to be rounded; the *)
(* parity of q decides a tie.                                              *)
(***************************************************************************)
RoundMagnitude(t, e) ==
    LET k == Binade(t, e)
        n == 52 - k
        rp == ((t % 10) * Pow2Mod10(n)) % 10
        r20 == ((t % 20) * Pow2Mod20(n)) % 20
        qpar == ((r20 - rp) \div 10) % 2
        M == IF k >= 0 THEN 10 * Pow2(k) ELSE 10
        R == IF k >= 0 THEN rp * Pow2(k) + e ELSE rp + 2 * e
        fl == R \div M
        rem == R - fl * M
        m == IF 2 * rem > M THEN fl + 1
             ELSE IF 2 * rem < M THEN fl
             ELSE IF (qpar + fl) % 2 = 0 THEN fl ELSE fl + 1
    IN <<t, IF k >= 0 THEN m * M - rp * Pow2(k) ELSE (m * M - rp) \div 2>>

\* rounding is symmetric in the sign; 0 is a double
RoundToDouble(t, e) ==
    IF t = 0 /\ e = 0 THEN <<0, 0>>
    ELSE IF t < 0 \/ (t = 0 /\ e < 0)
         THEN LET r == RoundMagnitude(-t, -e) IN <<-r[1], -r[2]>>
         ELSE RoundMagnitude(t, e)

\* a + b on doubles
DoubleAdd(a, b) == RoundToDouble(a[1] + b[1], a[2] + b[2])

\* score * weight on doubles; score is a small integer, hence exact
DoubleMul(score, weight) == RoundToDouble(score * weight[1], score * weight[2])

Abs(x) == IF x < 0 THEN -x ELSE x

(***************************************************************************)
(* fl(a / b) >= j - 0.5 for b > 0, the test Math.round makes.              *)
(* h = j - 0.5 is a double with an even significand, so fl(a/b) >= h iff   *)
(* a/b >= h - delta, delta half the gap between h and the double below it. *)
(* With a = <<ta, ea>>, b = <<tb, eb>> this is a comparison of             *)
(*   D1 * 2^52 + D2/4 + D3/4 * 2^-52  with  0.                             *)
(***************************************************************************)
QuotientAtLeastHalfBelow(a, b, j) ==
    LET h2 == 2 * j - 1
        kh == CHOOSE k \in -1..11 : Pow2(k + 1) <= Abs(h2) /\ Abs(h2) < Pow2(k + 2)
        g == IF kh >= 0 THEN 4 * Pow2(kh) ELSE 2
        g4 == IF h2 = 1 THEN g \div 2 ELSE g
        D1 == 2 * a[1] - h2 * b[1]
        D2 == 4 * (2 * a[2] - h2 * b[2]) + g4 * b[1]
        D3 == g4 * b[2]
    IN D1 > 0 \/ (D1 = 0 /\ (D2 > 0 \/ (D2 = 0 /\ D3 >= 0)))

\* Math.round(a / b), b > 0: the double quotient lies within an ulp of the
\* real one, so the result is the exactly rounded K or one of its neighbours
MathRoundOfQuotient(a, b) ==
    LET K == (2 * a[1] + b[1]) \div (2 * b[1])
    IN IF QuotientAtLeastHalfBelow(a, b, K + 1) THEN K + 1
       ELSE IF QuotientAtLeastHalfBelow(a, b, K) THEN K
       ELSE K - 1

(***************************************************************************)
(* calculateOverallScore: one pass over the category map in key order,     *)
(* accumulating totalWeight and weightedScore over the categories whose    *)
(* issue list is non-empty.                                                *)
(***************************************************************************)
RECURSIVE AccumulateWeights(_, _)
AccumulateWeights(cats, i) ==
    IF i = 0 THEN [totalWeight |-> <<0, 0>>, weightedScore |-> <<0, 0>>]
    ELSE LET acc == AccumulateWeights(cats, i - 1)
             data == cats[CategoryOrder[i]]
             weight == WeightOf(CategoryOrder[i])
         IN IF Len(data.issues) > 0
            THEN [totalWeight |-> DoubleAdd(acc.totalWeight, weight),
                  weightedScore |-> DoubleAdd(acc.weightedScore,
                                              DoubleMul(data.score, weight))]
            ELSE acc

\* faulty variant: 0 instead of 100 when no category has an issue
calculateOverallScore_ZeroWhenEmpty(cats) ==
    LET acc == AccumulateWeights(cats, Len(CategoryOrder))
    IN IF acc.totalWeight[1] > 0
       THEN MathRoundOfQuotient(acc.weightedScore, acc.totalWeight)
       ELSE 0

calculateOverallScore(cats) ==
    LET acc == AccumulateWeights(cats, Len(CategoryOrder))
    IN IF acc.totalWeight[1] > 0
       THEN MathRoundOfQuotient(acc.weightedScore, acc.totalWeight)
       ELSE 100

(***************************************************************************)
(* Issues.  An optional field that is absent is held as a value of the     *)
(* field's own shape: elementId "" (falsy, like undefined, in the test     *)
(* `if (issue.elementId)`), elementPosition NoPosition, screenshot         *)
(* NoScreenshot.                                                           *)
(***************************************************************************)
NoId == ""

NoPosition == [set |-> FALSE, x |-> 0, y |-> 0, width |-> 0, height |-> 0]

NoScreenshot == [kind |-> "undefined", color |-> 0, rectText |-> FALSE]

\* what a checker decides about one issue: type, priority and the node it names
Finding(type, priority, elementId) ==
    [type |-> type, priority |-> priority, elementId |-> elementId]

\* the issue object a checker of category `category` pushes for its i-th finding
NewIssue(category, i, finding) ==
    [type |-> finding.type, message |-> i, category |-> category,
     priority |-> finding.priority, elementId |-> finding.elementId,
     elementPosition |-> NoPosition, screenshot |-> NoScreenshot]

(***************************************************************************)
(* The host (framer-plugin).  getRect answers a rect, null, or fails;      *)
(* zoomIntoView succeeds or fails.                                         *)
(***************************************************************************)
HostRect == [x |-> 10, y |-> 20, width |-> 200, height |-> 100]

HostRectAnswers == {"rect", "null", "fail"}

HostZoomAnswers == {"ok", "fail"}

\* the placeholder palette of fallbackScreenshotMethod
colors == <<"#FF5733", "#33FF57", "#3357FF", "#F3FF33">>

\* fallbackScreenshotMethod: a coloured preview, or the grey placeholder
\* when its own getRect fails
fallbackScreenshotMethod(rectAnswer, colorIndex) ==
    IF rectAnswer = "fail"
    THEN [kind |-> "placeholder", color |-> 0, rectText |-> FALSE]
    ELSE [kind |-> "preview", color |-> colorIndex, rectText |-> (rectAnswer = "rect")]

\* getElementScreenshot: '' when zoomIntoView fails, else the fallback image
getElementScreenshot(zoomAnswer, rectAnswer, colorIndex) ==
    IF zoomAnswer = "fail"
    THEN [kind |-> "empty", color |-> 0, rectText |-> FALSE]
    ELSE fallbackScreenshotMethod(rectAnswer, colorIndex)

\* the images getElementScreenshot can return
ScreenshotOutcomes ==
    {getElementScreenshot(z, r, c) :
        z \in HostZoomAnswers, r \in HostRectAnswers, c \in 0..(Len(colors) - 1)}

\* faulty variant: the node list is not consulted
FindNode_Always(nodeList, elementId) == TRUE

\* nodes.find(n => n.id === issue.elementId)
FindNode(nodeList, elementId) ==
    \E n \in 1..Len(nodeList) : nodeList[n] = elementId

(***************************************************************************)
(* One iteration of the loop of enrichIssuesWithVisualInfo for an issue    *)
(* that names a node of the list: the first getRect answers rectAnswer,    *)
(* getElementScreenshot returns shot.  A failing getRect leaves the loop   *)
(* body through the catch before anything is assigned.                     *)
(***************************************************************************)
EnrichedIssue(issue, rectAnswer, shot) ==
    IF rectAnswer = "fail" THEN issue
    ELSE [issue EXCEPT
            !.elementPosition =
                IF rectAnswer = "rect"
                THEN [set |-> TRUE, x |-> HostRect.x, y |-> HostRect.y,
                      width |-> HostRect.width, height |-> HostRect.height]
                ELSE @,
            !.screenshot = shot]

(***************************************************************************)
(* Strings.  A JavaScript string is a TLA+ string; an optional field that  *)
(* is absent holds Undefined.                                              *)
(***************************************************************************)
Undefined == "<undefined>"

\* the truthiness of an optional string: undefined and '' are falsy
Truthy(s) == s # Undefined /\ s # ""

\* s || d
OrElse(s, d) == IF Truthy(s) THEN s ELSE d

CharAt(s, i) == SubSeq(s, i, i)

\* s.includes(sub), sub not empty
Includes(s, sub) ==
    \E i \in 1..(Len(s) - Len(sub) + 1) : SubSeq(s, i, i + Len(sub) - 1) = sub

\* s.startsWith(prefix)
StartsWith(s, prefix) ==
    Len(s) >= Len(prefix) /\ SubSeq(s, 1, Len(prefix)) = prefix

UpperCase == "ABCDEFGHIJKLMNOPQRSTUVWXYZ"

LowerCase == "abcdefghijklmnopqrstuvwxyz"

LowerChar(c) ==
    IF \E i \in 1..Len(UpperCase) : CharAt(UpperCase, i) = c
    THEN CharAt(LowerCase, CHOOSE i \in 1..Len(UpperCase) : CharAt(UpperCase, i) = c)
    ELSE c

RECURSIVE toLowerCase(_)
toLowerCase(s) ==
    IF Len(s) <= 1 THEN LowerChar(s)
    ELSE toLowerCase(SubSeq(s, 1, Len(s) \div 2))
         \o toLowerCase(SubSeq(s, Len(s) \div 2 + 1, Len(s)))

\* \s
Spaces == {" ", "\t", "\n"}

\* the least element of a set of indices, or `otherwise` if it is empty
FirstOf(indices, otherwise) ==
    IF indices = {} THEN otherwise
    ELSE CHOOSE k \in indices : \A h \in indices : k <= h

\* the first index >= i of s whose character is not in class, or Len(s) + 1
SkipWhile(s, i, class) ==
    FirstOf({k \in i..Len(s) : CharAt(s, k) \notin class}, Max(i, Len(s) + 1))

\* the first index >= i of s whose character is in class, or Len(s) + 1
NextIn(s, i, class) ==
    FirstOf({k \in i..Len(s) : CharAt(s, k) \in class}, Max(i, Len(s) + 1))

RECURSIVE SplitFrom(_, _, _, _)
\* s.split(/[class]+/) from index i on, cur the piece collected so far
SplitFrom(s, i, cur, class) ==
    LET k == NextIn(s, i, class) IN
    IF k > Len(s) THEN <<cur \o SubSeq(s, i, Len(s))>>
    ELSE <<cur \o SubSeq(s, i, k - 1)>> \o SplitFrom(s, SkipWhile(s, k, class), "", class)

\* s.split(/\s+/)
SplitSpaces(s) == SplitFrom(s, 1, "", Spaces)

\* s.split(/[.!?]+/)
SplitSentences(s) == SplitFrom(s, 1, "", {".", "!", "?"})

RECURSIVE TrimEnd(_)
TrimEnd(s) ==
    IF s # "" /\ CharAt(s, Len(s)) \in Spaces THEN TrimEnd(SubSeq(s, 1, Len(s) - 1)) ELSE s

\* s.trim()
Trim(s) == TrimEnd(SubSeq(s, SkipWhile(s, 1, Spaces), Len(s)))

RECURSIVE Join(_, _)
\* strings.join(sep)
Join(strings, sep) ==
    IF Len(strings) = 0 THEN ""
    ELSE IF Len(strings) = 1 THEN strings[1]
    ELSE strings[1] \o sep \o Join(Tail(strings), sep)

RECURSIVE RepeatString(_, _)
RepeatString(s, n) == IF n = 0 THEN "" ELSE s \o RepeatString(s, n - 1)

(***************************************************************************)
(* Nodes of a page (FramerNode) and the issues a checker returns           *)
(* (SEOIssue without the constant recommendation texts).                   *)
(***************************************************************************)
FramerNode(id, name) ==
    [id |-> id, name |-> name, type |-> Undefined, text |-> Undefined,
     alt |-> Undefined, href |-> Undefined, rel |-> Undefined,
     ariaLabel |-> Undefined, role |-> Undefined, metaName |-> Undefined,
     metaContent |-> Undefined, fontSize |-> 0,
     color |-> Undefined, backgroundColor |-> Undefined]

Issue(type, message, category, priority, elementId) ==
    [type |-> type, message |-> message, category |-> category,
     priority |-> priority, elementId |-> elementId]

\* array.filter(pred)
Filter(array, Pred(_)) == SelectSeq(array, Pred)

\* array.some(pred)
Some(array, Pred(_)) == \E i \in 1..Len(array) : Pred(array[i])

\* array.map(f)
Map(array, F(_)) == [i \in 1..Len(array) |-> F(array[i])]

RECURSIVE SumLengths(_)
SumLengths(strings) ==
    IF Len(strings) = 0 THEN 0 ELSE Len(strings[1]) + SumLengths(Tail(strings))

RECURSIVE Dedup(_)
\* the distinct elements of a list, in the order of their first occurrence
Dedup(list) ==
    IF Len(list) = 0 THEN <<>>
    ELSE LET front == Dedup(SubSeq(list, 1, Len(list) - 1))
             last == list[Len(list)]
         IN IF \E i \in 1..Len(front) : front[i] = last THEN front ELSE Append(front, last)

Occurrences(list, x) == Cardinality({i \in 1..Len(list) : list[i] = x})

RECURSIVE SortByCount(_, _)
\* keys sorted by falling number of occurrences in list; the sort is stable
SortByCount(keys, list) ==
    IF Len(keys) = 0 THEN <<>>
    ELSE LET best == CHOOSE i \in 1..Len(keys) :
                        /\ \A k \in 1..Len(keys) :
                              Occurrences(list, keys[k]) <= Occurrences(list, keys[i])
                        /\ \A k \in 1..(i - 1) :
                              Occurrences(list, keys[k]) < Occurrences(list, keys[i])
         IN <<keys[best]>> \o
            SortByCount(SubSeq(keys, 1, best - 1) \o SubSeq(keys, best + 1, Len(keys)), list)

\* array.slice(0, n)
Slice(array, n) == SubSeq(array, 1, IF n < Len(array) THEN n ELSE Len(array))

NameIncludes(node, sub) == Includes(toLowerCase(node.name), sub)

(***************************************************************************)
(* ContentAnalyzer.                                                        *)
(***************************************************************************)
ContentIssue(type, message, priority) == Issue(type, message, "content", priority, NoId)

ContentAnalyzer_checkContentLength(pageNodes) ==
    LET textNodes == Filter(pageNodes, LAMBDA node :
                        \/ node.type = "text"
                        \/ Truthy(node.text)
                        \/ NameIncludes(node, "text")
                        \/ NameIncludes(node, "paragraph"))
        totalTextContent == SumLengths(Map(textNodes, LAMBDA node : OrElse(node.text, "")))
    IN IF totalTextContent < 300
       THEN <<ContentIssue("warning", "Content length is too short", "important")>>
       ELSE IF totalTextContent > 10000
       THEN <<ContentIssue("info", "Content is very long", "nice-to-have")>>
       ELSE <<>>

\* the message of the keyword-density warning is modelled up to the density
\* figure that follows the keyword
ContentAnalyzer_checkKeywordDensity(pageNodes) ==
    LET textContent == Join(Map(Filter(pageNodes, LAMBDA node : Truthy(node.text)),
                                LAMBDA node : node.text), " ")
        words == SplitSpaces(toLowerCase(textContent))
        counted == SelectSeq(words, LAMBDA word : Len(word) >= 4)
        sortedWords == Slice(SortByCount(Dedup(counted), counted), 5)
        topKeyword == sortedWords[1]
        headingNodes == Filter(pageNodes, LAMBDA node :
                            \/ NameIncludes(node, "h1")
                            \/ NameIncludes(node, "h2")
                            \/ NameIncludes(node, "heading"))
        headingTexts == Map(headingNodes, LAMBDA node : toLowerCase(OrElse(node.text, "")))
        tried == 1..(IF Len(sortedWords) < 3 THEN Len(sortedWords) ELSE 3)
        absent == {i \in tried :
                     ~Some(headingTexts, LAMBDA text : Includes(text, sortedWords[i]))}
    IN IF Len(textContent) = 0 \/ Len(sortedWords) = 0 THEN <<>>
       ELSE (IF Occurrences(counted, topKeyword) * 100 > 5 * Len(words)
             THEN <<ContentIssue("warning",
                        "Keyword \"" \o topKeyword \o "\" appears too frequently",
                        "important")>>
             ELSE <<>>)
            \o
            (IF absent # {}
             THEN <<ContentIssue("info",
                        "Keyword \"" \o sortedWords[CHOOSE i \in absent :
                                                       \A k \in absent : i <= k]
                                     \o "\" doesn't appear in any headings",
                        "nice-to-have")>>
             ELSE <<>>)

ContentAnalyzer_checkReadability(pageNodes) ==
    LET paragraphNodes == Filter(pageNodes, LAMBDA node :
                              \/ NameIncludes(node, "paragraph")
                              \/ NameIncludes(node, "text")
                              \/ (Truthy(node.text) /\ Len(node.text) > 100))
        longParagraphs == Filter(paragraphNodes, LAMBDA node :
                              node.text # Undefined /\ Len(node.text) > 300)
        complexSentences == Filter(paragraphNodes, LAMBDA node :
                              Some(SplitSentences(OrElse(node.text, "")), LAMBDA sentence :
                                   Len(SplitSpaces(Trim(sentence))) > 25))
    IN IF Len(paragraphNodes) = 0 THEN <<>>
       ELSE (IF Len(longParagraphs) > 0
             THEN <<ContentIssue("info", "Some paragraphs are very long", "nice-to-have")>>
             ELSE <<>>)
            \o
            (IF Len(complexSentences) > 0
             THEN <<ContentIssue("info", "Some sentences may be too complex", "nice-to-have")>>
             ELSE <<>>)

\* faulty variant: a page without text is not reported
ContentAnalyzer_checkThinContent_Silent(pageNodes) == <<>>

ContentAnalyzer_checkThinContent(pageNodes) ==
    LET textNodes == Filter(pageNodes, LAMBDA node : Truthy(node.text))
        allText == Join(Map(textNodes, LAMBDA node : OrElse(node.text, "")), " ")
        words == SelectSeq(SplitSpaces(allText), LAMBDA word : Len(word) > 0)
        uniqueWords == {toLowerCase(words[i]) : i \in 1..Len(words)}
    IN IF Len(textNodes) = 0
       THEN <<ContentIssue("error", "No text content found on the page", "critical")>>
       ELSE (IF 2 * Cardinality(uniqueWords) < Len(words)
             THEN <<ContentIssue("warning", "Content has a high level of repetition",
                                 "important")>>
             ELSE <<>>)
            \o
            (IF Len(words) < 100 /\ Len(pageNodes) > 50
             THEN <<ContentIssue("warning", "Low content-to-code ratio detected",
                                 "important")>>
             ELSE <<>>)

\* ContentAnalyzer.analyze
ContentAnalyzer(pageNodes) ==
    ContentAnalyzer_checkContentLength(pageNodes)
    \o ContentAnalyzer_checkKeywordDensity(pageNodes)
    \o ContentAnalyzer_checkReadability(pageNodes)
    \o ContentAnalyzer_checkThinContent(pageNodes)

(***************************************************************************)
(* Inputs of a run: the node list, options.filter, and what each checker's *)
(* analyze(nodes) does on that node list (checkers are pure, so this is    *)
(* fixed for the node list): it throws, or returns a list of findings.     *)
(***************************************************************************)
\* options.filter: absent, or an array of categories
NoFilter == [present |-> FALSE, cats |-> {}]

FilterOf(cats) == [present |-> TRUE, cats |-> cats]

\* getFilterForMode('seo')
SeoModeFilter ==
    {"metadata", "structure", "images", "content", "social",
     "performance", "mobile", "security", "schema"}

Filters ==
    {NoFilter, FilterOf(SeoModeFilter),
     FilterOf({"accessibility"}), FilterOf({"links"}), FilterOf({"structure"})}

NodeLists == {<<>>, <<"n1">>}

RECURSIVE Repeat(_, _)
Repeat(x, n) == IF n = 0 THEN <<>> ELSE Append(Repeat(x, n - 1), x)

Returns(findings) == [throws |-> FALSE, findings |-> findings]

Throws == [throws |-> TRUE, findings |-> <<>>]

\* the checkers whose issues name an element (set elementId): links,
\* structure, images and accessibility
ElementCheckers == {"structure", "images", "accessibility", "links"}

\* a checker finds nothing, or one issue of either priority
SingleBehaviours ==
    {Returns(<<>>),
     Returns(<<Finding("info", "nice-to-have", NoId)>>),
     Returns(<<Finding("warning", "important", NoId)>>),
     Returns(<<Finding("error", "critical", NoId)>>)}

\* a checker finds MaxIssues critical warnings
LongList == Returns(Repeat(Finding("warning", "critical", NoId), MaxIssues))

\* a checker finds an issue that names the element n1, and one that names none
WithElement ==
    Returns(<<Finding("error", "critical", "n1"), Finding("info", "important", NoId)>>)

\* a checker finds two issues that both name the element n1
TwoElements ==
    Returns(<<Finding("error", "critical", "n1"), Finding("warning", "important", "n1")>>)

HasRef(profile) ==
    \E c \in DOMAIN profile : \E i \in 1..Len(profile[c].findings) :
        profile[c].findings[i].elementId # NoId

\* the checkers that find anything in the explored runs: the first five
\* registered
ReportingCategories == {"metadata", "structure", "social", "images", "content"}

Quiet == [c \in ReportingCategories |-> Returns(<<>>)]

AtMostOneSingle ==
    {Quiet} \cup {[Quiet EXCEPT ![c] = b] : c \in ReportingCategories, b \in SingleBehaviours}

\* the explored behaviours of the reporting checkers on one node list:
\* any combination of single issues; a long list next to at most one single
\* issue; an issue that names an element; a checker that throws next to
\* checkers that find one issue or none
ReportingProfiles ==
    [ReportingCategories -> SingleBehaviours]
    \cup {[q EXCEPT ![c] = LongList] : q \in AtMostOneSingle, c \in ReportingCategories}
    \cup {[Quiet EXCEPT ![c] = WithElement] : c \in ReportingCategories \cap ElementCheckers}
    \cup {[q EXCEPT ![c] = Throws] :
            q \in [ReportingCategories ->
                     {Returns(<<>>), Returns(<<Finding("warning", "important", NoId)>>)}],
            c \in ReportingCategories}

CheckerProfiles ==
    {[c \in AnalyzerCategories |->
        IF c \in ReportingCategories THEN q[c] ELSE Returns(<<>>)] :
     q \in ReportingProfiles}

\* all checkers find nothing
AllQuiet == [c \in AnalyzerCategories |-> Returns(<<>>)]

\* the runs explored for the enrichment: one checker names an element
\* twice, and possibly a checker registered after it throws
EnrichProfiles ==
    {[AllQuiet EXCEPT ![c] = TwoElements] : c \in ElementCheckers}
    \cup {[AllQuiet EXCEPT !["links"] = WithElement]}
    \cup {[AllQuiet EXCEPT !["images"] = TwoElements, ![c] = Throws] :
            c \in {"content", "schema"}}

\* analyzer.analyze(nodes) of the checker registered under `category`
Analyze(behaviour, category) ==
    [i \in 1..Len(behaviour.findings) |-> NewIssue(category, i, behaviour.findings[i])]

(***************************************************************************)
(* State.                                                                  *)
(***************************************************************************)
VARIABLES
    nodes,          \* the node list handed to analyzeNodes (ids of its nodes)
    filter,         \* options.filter
    checkers,       \* what each registered checker does on `nodes`
    pc,             \* where the current analyzeNodes call stands
    calls,          \* analyzeNodes calls started so far
    idx,            \* position of the loop over Object.entries(this.analyzers)
    categoryIssues, \* issues of the checker being enriched
    j,              \* position of the loop of enrichIssuesWithVisualInfo
    enrichedIssues, \* its result list
    allIssues,      \* local of analyzeNodes
    categories,     \* local of analyzeNodes: the category map
    results,        \* the result the caller holds: <<>>, or that of the latest
                    \* call that returned
    ran,            \* categories whose checker this call has run, in order
    rectLog,        \* the host's answers to this call's bounding-box requests
    page,           \* the nodes of the page a checker is applied to
    checked,        \* the checker that was applied to `page`, or "none"
    found,          \* the issues that checker returned
    hook            \* useAnalyzer: where runAnalysis stands, and the results
                    \* the analysis context stores for each mode

vars == <<nodes, filter, checkers, pc, calls, idx, categoryIssues, j,
          enrichedIssues, allIssues, categories, results, ran, rectLog,
          page, checked, found, hook>>

\* what a call of analyzeNodes leaves alone
inputs == <<nodes, filter, checkers, page, checked, found, hook>>

AnalysisModes == {"seo", "accessibility", "links"}

\* useReportGenerator before Download Report is clicked.  `at` is the place
\* of initiateDownload: 0 not running, 1..3 the three tests of
\* ensureAllCategoriesAnalyzed, 4 generateAndDownloadReport; `seen` holds
\* seoResults, accessibilityResults and linksResults as the render that made
\* the running initiateDownload saw them
DownloadIdle ==
    [at |-> 0, calling |-> FALSE, seen |-> [m \in AnalysisModes |-> <<>>]]

\* useAnalyzer before runAnalysis is called: nothing stored for any mode.
\* `runMode` is the analysisMode the running runAnalysis was rendered with
\* ("none" when none is running in the plugin window),
\* `category` the selected category of each mode, `report` the modes' results
\* handed to the latest generateComprehensiveReport
HookIdle(mode) ==
    [step |-> "idle", analysisMode |-> mode, isAnalyzing |-> FALSE,
     collected |-> "none", errors |-> 0,
     stored |-> [m \in AnalysisModes |-> <<>>],
     runMode |-> "none",
     category |-> [m \in AnalysisModes |-> "all"],
     download |-> DownloadIdle,
     report |-> <<>>]

\* no checker has been applied on its own
NothingChecked ==
    /\ page = <<>>
    /\ checked = "none"
    /\ found = <<>>
    /\ hook = HookIdle("seo")

\* the category map analyzeNodes starts from
InitialCategories == [c \in SEOCategory |-> [issues |-> <<>>, score |-> 0]]

Init ==
    /\ checkers \in CheckerProfiles
    /\ filter \in Filters
    \* the node list is consulted only for the elements that issues name
    /\ nodes \in IF HasRef(checkers) THEN NodeLists ELSE {<<"n1">>}
    /\ pc = "idle"
    /\ calls = 0
    /\ idx = 0
    /\ categoryIssues = <<>>
    /\ j = 0
    /\ enrichedIssues = <<>>
    /\ allIssues = <<>>
    /\ categories = InitialCategories
    /\ results = <<>>
    /\ ran = <<>>
    /\ rectLog = <<>>
    /\ NothingChecked

\* faulty variant: the filter is not consulted
FilteredOut_Never(category) == FALSE

\* options.filter && !options.filter.includes(category)
FilteredOut(category) == filter.present /\ category \notin filter.cats

\* faulty variant: allIssues is kept from the previous call
StartAnalyze_KeepsIssues ==
    /\ pc \in {"idle", "done", "rejected"}
    /\ calls < MaxCalls
    /\ calls' = calls + 1
    /\ pc' = "loop"
    /\ idx' = 1
    /\ categories' = InitialCategories
    /\ categoryIssues' = <<>>
    /\ enrichedIssues' = <<>>
    /\ j' = 0
    /\ ran' = <<>>
    /\ rectLog' = <<>>
    /\ UNCHANGED <<inputs, results, allIssues>>

\* entry of analyzeNodes: fresh allIssues and category map
StartAnalyze ==
    /\ pc \in {"idle", "done", "rejected"}
    /\ calls < MaxCalls
    /\ calls' = calls + 1
    /\ pc' = "loop"
    /\ idx' = 1
    /\ allIssues' = <<>>
    /\ categories' = InitialCategories
    /\ categoryIssues' = <<>>
    /\ enrichedIssues' = <<>>
    /\ j' = 0
    /\ ran' = <<>>
    /\ rectLog' = <<>>
    /\ UNCHANGED <<inputs, results>>

\* loop head, checker filtered out: continue
SkipChecker ==
    /\ pc = "loop"
    /\ idx <= Len(AnalyzerOrder)
    /\ FilteredOut(AnalyzerOrder[idx])
    /\ idx' = idx + 1
    /\ UNCHANGED <<inputs, pc, calls, categoryIssues, j, enrichedIssues,
                   allIssues, categories, results, ran, rectLog>>

\* analyzer.analyze(nodes) returns; enrichIssuesWithVisualInfo is entered
RunChecker ==
    /\ pc = "loop"
    /\ idx <= Len(AnalyzerOrder)
    /\ ~FilteredOut(AnalyzerOrder[idx])
    /\ ~checkers[AnalyzerOrder[idx]].throws
    /\ ran' = Append(ran, AnalyzerOrder[idx])
    /\ categoryIssues' = Analyze(checkers[AnalyzerOrder[idx]], AnalyzerOrder[idx])
    /\ enrichedIssues' = <<>>
    /\ j' = 1
    /\ pc' = "enrich"
    /\ UNCHANGED <<inputs, calls, idx, allIssues, categories, results, rectLog>>

\* analyzer.analyze(nodes) throws: nothing in analyzeNodes catches it, the
\* promise it returned is rejected
CheckerThrows ==
    /\ pc = "loop"
    /\ idx <= Len(AnalyzerOrder)
    /\ ~FilteredOut(AnalyzerOrder[idx])
    /\ checkers[AnalyzerOrder[idx]].throws
    /\ ran' = Append(ran, AnalyzerOrder[idx])
    /\ pc' = "rejected"
    /\ UNCHANGED <<inputs, calls, idx, categoryIssues, j, enrichedIssues,
                   allIssues, categories, results, rectLog>>

\* faulty variant: no try/catch around the host calls, a failing getRect
\* rejects the call
EnrichIssue_Unguarded ==
    /\ pc = "enrich"
    /\ j <= Len(categoryIssues)
    /\ LET issue == categoryIssues[j] IN
         IF issue.elementId # NoId /\ FindNode(nodes, issue.elementId)
         THEN \E rectAnswer \in HostRectAnswers, shot \in ScreenshotOutcomes :
                 /\ enrichedIssues' =
                        Append(enrichedIssues, EnrichedIssue(issue, rectAnswer, shot))
                 /\ rectLog' = Append(rectLog, rectAnswer)
                 /\ pc' = IF rectAnswer = "fail" THEN "rejected" ELSE pc
         ELSE /\ enrichedIssues' = Append(enrichedIssues, issue)
              /\ rectLog' = rectLog
              /\ pc' = pc
    /\ j' = j + 1
    /\ UNCHANGED <<inputs, calls, idx, categoryIssues, allIssues,
                   categories, results, ran>>

\* one iteration of the loop of enrichIssuesWithVisualInfo
EnrichIssue ==
    /\ pc = "enrich"
    /\ j <= Len(categoryIssues)
    /\ LET issue == categoryIssues[j] IN
         IF issue.elementId # NoId /\ FindNode(nodes, issue.elementId)
         THEN \E rectAnswer \in HostRectAnswers, shot \in ScreenshotOutcomes :
                 /\ enrichedIssues' =
                        Append(enrichedIssues, EnrichedIssue(issue, rectAnswer, shot))
                 /\ rectLog' = Append(rectLog, rectAnswer)
         ELSE /\ enrichedIssues' = Append(enrichedIssues, issue)
              /\ rectLog' = rectLog
    /\ j' = j + 1
    /\ UNCHANGED <<inputs, pc, calls, idx, categoryIssues, allIssues,
                   categories, results, ran>>

\* faulty variant: allIssues = enrichedIssues
PushAll_Overwrite(all, enriched) == enriched

\* faulty variant: allIssues.unshift(...enrichedIssues)
PushAll_Unshift(all, enriched) == enriched \o all

\* allIssues.push(...enrichedIssues)
PushAll(all, enriched) == all \o enriched

\* faulty variant: the category gets the issues collected so far as well
AssignCategoryIssues_Accumulated(cats, category, enriched) ==
    [cats EXCEPT ![category].issues = allIssues \o enriched]

\* categories[category].issues = enrichedIssues
AssignCategoryIssues(cats, category, enriched) ==
    [cats EXCEPT ![category].issues = enriched]

\* faulty variant: the loop over the checkers does not await the enrichment
CommitChecker_NotAwaited ==
    /\ pc = "enrich"
    /\ allIssues' = PushAll(allIssues, enrichedIssues)
    /\ categories' = AssignCategoryIssues(categories, AnalyzerOrder[idx], enrichedIssues)
    /\ idx' = idx + 1
    /\ pc' = "loop"
    /\ UNCHANGED <<inputs, calls, categoryIssues, j, enrichedIssues, results,
                   ran, rectLog>>

\* enrichIssuesWithVisualInfo returns; the issues are folded into the result
CommitChecker ==
    /\ pc = "enrich"
    /\ j > Len(categoryIssues)
    /\ allIssues' = PushAll(allIssues, enrichedIssues)
    /\ categories' = AssignCategoryIssues(categories, AnalyzerOrder[idx], enrichedIssues)
    /\ idx' = idx + 1
    /\ pc' = "loop"
    /\ UNCHANGED <<inputs, calls, categoryIssues, j, enrichedIssues, results,
                   ran, rectLog>>

\* faulty variant: only the categories that hold issues are scored
ScoreCategories_NonEmptyOnly(cats) ==
    [c \in DOMAIN cats |->
        IF Len(cats[c].issues) > 0
        THEN [cats[c] EXCEPT !.score = calculateScoreForCategory(cats[c].issues)]
        ELSE cats[c]]

\* for (const category of Object.keys(categories)) categories[category].score = ...
ScoreCategories(cats) ==
    [c \in DOMAIN cats |->
        [cats[c] EXCEPT !.score = calculateScoreForCategory(cats[c].issues)]]

\* after the last checker: score every category, compute the overall score, return
ComputeScores ==
    /\ pc = "loop"
    /\ idx > Len(AnalyzerOrder)
    /\ categories' = ScoreCategories(categories)
    /\ results' = <<[issues |-> allIssues,
                     score |-> calculateOverallScore(categories'),
                     categories |-> categories',
                     ran |-> ran,
                     rects |-> rectLog]>>
    /\ pc' = "done"
    /\ UNCHANGED <<inputs, calls, idx, categoryIssues, j, enrichedIssues,
                   allIssues, ran, rectLog>>

Next ==
    \/ StartAnalyze
    \/ SkipChecker
    \/ RunChecker
    \/ CheckerThrows
    \/ EnrichIssue
    \/ CommitChecker
    \/ ComputeScores

Spec == Init /\ [][Next]_vars

(***************************************************************************)
(* The enrichment explored on its own: a single call on a run in which a   *)
(* checker names an element twice.                                         *)
(***************************************************************************)
InitEnrich ==
    /\ checkers \in EnrichProfiles
    /\ filter \in Filters
    /\ nodes \in NodeLists
    /\ pc = "idle"
    /\ calls = 0
    /\ idx = 0
    /\ categoryIssues = <<>>
    /\ j = 0
    /\ enrichedIssues = <<>>
    /\ allIssues = <<>>
    /\ categories = InitialCategories
    /\ results = <<>>
    /\ ran = <<>>
    /\ rectLog = <<>>
    /\ NothingChecked

\* the caller's first call
StartAnalyzeOnce == calls = 0 /\ StartAnalyze

NextEnrich ==
    \/ StartAnalyzeOnce
    \/ SkipChecker
    \/ RunChecker
    \/ CheckerThrows
    \/ EnrichIssue
    \/ CommitChecker
    \/ ComputeScores

SpecEnrich == InitEnrich /\ [][NextEnrich]_vars

(***************************************************************************)
(* analyzeNodes on pages, the content checker's behaviour being what       *)
(* ContentAnalyzer does on the page.  FramerNode.name is required by the   *)
(* type only; on a node that lacks it at run time node.name.toLowerCase()  *)
(* throws a TypeError, in the content checker and in the first find        *)
(* callback of the metadata checker alike.  The issues the metadata and    *)
(* social checkers return are not derived from the page: they return one   *)
(* issue or none.                                                          *)
(***************************************************************************)
TextNode(id, name, text) == [FramerNode(id, name) EXCEPT !.text = text]

ContentPages ==
    {<<>>,
     <<FramerNode("n1", "Frame")>>,
     <<TextNode("n1", "Hero", "")>>,
     <<TextNode("n1", "Hero", "Hello world hello")>>,
     <<TextNode("n1", "H1 heading", "spam spam spam"), FramerNode("n2", "paragraph")>>,
     <<TextNode("n1", "Body", RepeatString("lorem ipsum dolor ", 6))>>,
     <<FramerNode("n1", Undefined)>>,
     <<FramerNode("n1", Undefined), TextNode("n2", "Hero", "Hello")>>}

Nameless(pageNodes) == Some(pageNodes, LAMBDA node : node.name = Undefined)

\* nodes as analyzeNodes' enrichment sees them: their ids
NodeIds(pageNodes) == Map(pageNodes, LAMBDA node : node.id)

AsFindings(issues) ==
    Map(issues, LAMBDA issue : Finding(issue.type, issue.priority, issue.elementId))

ContentBehaviour(pageNodes) ==
    IF Nameless(pageNodes) THEN Throws
    ELSE Returns(AsFindings(ContentAnalyzer(pageNodes)))

OneOrNone == {Returns(<<>>), Returns(<<Finding("warning", "important", NoId)>>)}

PageProfiles(pageNodes) ==
    {[c \in AnalyzerCategories |->
        CASE c = "content" -> ContentBehaviour(pageNodes)
          [] c = "metadata" -> IF Nameless(pageNodes) THEN Throws ELSE m
          [] c = "social" -> o
          [] OTHER -> Returns(<<>>)] :
     m \in OneOrNone, o \in OneOrNone}

\* filters under which the first checker run is the metadata or the content
\* checker
PageFilters == {NoFilter, FilterOf(SeoModeFilter), FilterOf({"content"})}

InitPage ==
    /\ page \in ContentPages
    /\ nodes = NodeIds(page)
    /\ checkers \in PageProfiles(page)
    /\ filter \in PageFilters
    /\ checked = "none"
    /\ found = <<>>
    /\ hook = HookIdle("seo")
    /\ pc = "idle"
    /\ calls = 0
    /\ idx = 0
    /\ categoryIssues = <<>>
    /\ j = 0
    /\ enrichedIssues = <<>>
    /\ allIssues = <<>>
    /\ categories = InitialCategories
    /\ results = <<>>
    /\ ran = <<>>
    /\ rectLog = <<>>

SpecPage == InitPage /\ [][NextEnrich]_vars

(***************************************************************************)
(* Checkers applied on their own: a check is applied once to a page, the   *)
(* service staying idle.                                                   *)
(***************************************************************************)
engine == <<nodes, filter, checkers, pc, calls, idx, categoryIssues, j,
            enrichedIssues, allIssues, categories, results, ran, rectLog>>

EngineIdle ==
    /\ nodes = <<>>
    /\ filter = NoFilter
    /\ checkers = AllQuiet
    /\ pc = "idle"
    /\ calls = 0
    /\ idx = 0
    /\ categoryIssues = <<>>
    /\ j = 0
    /\ enrichedIssues = <<>>
    /\ allIssues = <<>>
    /\ categories = InitialCategories
    /\ results = <<>>
    /\ ran = <<>>
    /\ rectLog = <<>>

InitCheck(pages) ==
    /\ page \in pages
    /\ checked = "none"
    /\ found = <<>>
    /\ hook = HookIdle("seo")
    /\ EngineIdle

\* the check `check` is applied to the page and returns `issues`
Apply(check, issues) ==
    /\ checked = "none"
    /\ checked' = check
    /\ found' = issues
    /\ UNCHANGED <<page, hook, engine>>

(***************************************************************************)
(* AccessibilityAnalyzer.checkImageAltText.                                *)
(***************************************************************************)
AccessibilityIssue(type, message, priority, node) ==
    Issue(type, message, "accessibility", priority, node.id)

\* imageNodes.forEach: the alt-text issue of one image, if any
AccessibilityAnalyzer_altIssue(imageNode) ==
    IF ~Truthy(imageNode.alt) /\ ~Truthy(imageNode.ariaLabel)
    THEN <<AccessibilityIssue("error",
               "Missing alt text for image \"" \o imageNode.name \o "\"",
               "critical", imageNode)>>
    ELSE IF Truthy(imageNode.alt) /\ (imageNode.alt = "image" \/ Len(imageNode.alt) < 5)
    THEN <<AccessibilityIssue("warning",
               "Non-descriptive alt text \"" \o imageNode.alt \o "\" for image \""
                   \o imageNode.name \o "\"",
               "important", imageNode)>>
    ELSE <<>>

\* decorativeImages.forEach: the issue of one decorative image, if any
AccessibilityAnalyzer_decorativeIssue(imageNode) ==
    IF imageNode.alt # ""
    THEN <<AccessibilityIssue("info",
               "Decorative image \"" \o imageNode.name \o "\" should have empty alt text",
               "nice-to-have", imageNode)>>
    ELSE <<>>

RECURSIVE FlatMap(_, _)
\* the concatenation of the lists lists[1], lists[2], ...
FlatMap(lists, n) == IF n = 0 THEN <<>> ELSE FlatMap(lists, n - 1) \o lists[n]

AccessibilityAnalyzer_checkImageAltText(pageNodes) ==
    LET imageNodes == Filter(pageNodes, LAMBDA node :
                          \/ node.type = "image"
                          \/ NameIncludes(node, "image")
                          \/ NameIncludes(node, "img")
                          \/ NameIncludes(node, "picture"))
        decorativeImages == Filter(imageNodes, LAMBDA node :
                                \/ node.alt = ""
                                \/ NameIncludes(node, "decorative")
                                \/ NameIncludes(node, "background"))
    IN IF Len(imageNodes) = 0 THEN <<>>
       ELSE FlatMap(Map(imageNodes, AccessibilityAnalyzer_altIssue), Len(imageNodes))
            \o FlatMap(Map(decorativeImages, AccessibilityAnalyzer_decorativeIssue),
                       Len(decorativeImages))

ImageNode(id, name, type, alt, ariaLabel) ==
    [FramerNode(id, name) EXCEPT !.type = type, !.alt = alt, !.ariaLabel = ariaLabel]

AltTexts == {Undefined, "", "image", "logo", "A red bicycle"}

ImageNodes(id) ==
    {ImageNode(id, name, type, alt, ariaLabel) :
        name \in {"Image", "decorative background", "Frame"},
        type \in {"image", Undefined},
        alt \in AltTexts,
        ariaLabel \in {Undefined, "Bicycle"}}

\* pages of one image node, and a page of two
ImagePages ==
    {<<>>} \cup {<<n>> : n \in ImageNodes("n1")}
    \cup {<<ImageNode("n1", "Image", "image", "", Undefined), n>> : n \in ImageNodes("n2")}

InitAccessibility == InitCheck(ImagePages)

ApplyCheckImageAltText ==
    Apply("checkImageAltText", AccessibilityAnalyzer_checkImageAltText(page))

NextAccessibility == ApplyCheckImageAltText

SpecAccessibility == InitAccessibility /\ [][NextAccessibility]_vars

(***************************************************************************)
(* AccessibilityAnalyzer.analyze: the six checks push to one issue list.   *)
(* node.style has the keys of the FramerNode type (fontSize, color,        *)
(* backgroundColor, width, height), none of which contains 'focus'.        *)
(***************************************************************************)
validRoles ==
    {"button", "checkbox", "dialog", "gridcell", "link", "menuitem",
     "menuitemcheckbox", "menuitemradio", "option", "progressbar",
     "radio", "scrollbar", "searchbox", "slider", "spinbutton",
     "switch", "tab", "tabpanel", "textbox", "treeitem"}

\* nodes.forEach of checkAriaAttributes: the issues of one node
AccessibilityAnalyzer_ariaIssues(node) ==
    (IF Truthy(node.role) /\ toLowerCase(node.role) \notin validRoles
     THEN <<AccessibilityIssue("warning",
                "Potentially invalid ARIA role \"" \o node.role \o "\" on element \""
                    \o node.name \o "\"",
                "important", node)>>
     ELSE <<>>)
    \o (IF /\ \/ node.role = "button"
              \/ node.role = "link"
              \/ NameIncludes(node, "button")
              \/ NameIncludes(node, "link")
           /\ ~Truthy(node.ariaLabel)
           /\ ~Truthy(node.text)
        THEN <<AccessibilityIssue("error",
                   "Interactive element \"" \o node.name \o "\" has no accessible name",
                   "critical", node)>>
        ELSE <<>>)

AccessibilityAnalyzer_checkAriaAttributes(pageNodes) ==
    FlatMap(Map(pageNodes, AccessibilityAnalyzer_ariaIssues), Len(pageNodes))

AccessibilityAnalyzer_checkFormAccessibility(pageNodes) ==
    LET formNodes == Filter(pageNodes, LAMBDA node :
                         NameIncludes(node, "form") \/ node.role = "form")
        inputNodes == Filter(pageNodes, LAMBDA node :
                          \/ NameIncludes(node, "input")
                          \/ NameIncludes(node, "textfield")
                          \/ NameIncludes(node, "textarea")
                          \/ NameIncludes(node, "select")
                          \/ node.role = "textbox"
                          \/ node.role = "searchbox"
                          \/ node.role = "combobox")
        labelIssue(inputNode) ==
            IF /\ ~Some(pageNodes, LAMBDA node :
                        /\ NameIncludes(node, "label")
                        /\ NameIncludes(node, toLowerCase(inputNode.name)))
               /\ ~Truthy(inputNode.ariaLabel)
            THEN <<AccessibilityIssue("error",
                       "Input \"" \o inputNode.name \o "\" has no associated label",
                       "critical", inputNode)>>
            ELSE <<>>
        hasErrorMessage == Some(pageNodes, LAMBDA node :
                               \/ NameIncludes(node, "error")
                               \/ NameIncludes(node, "validation")
                               \/ NameIncludes(node, "helper"))
    IN IF Len(formNodes) = 0 THEN <<>>
       ELSE FlatMap(Map(inputNodes, labelIssue), Len(inputNodes))
            \o (IF Len(inputNodes) > 0 /\ ~hasErrorMessage
                THEN <<Issue("warning", "Form may lack error validation messages",
                             "accessibility", "important", NoId)>>
                ELSE <<>>)

AccessibilityAnalyzer_checkKeyboardNavigation(pageNodes) ==
    LET hasFocusStyles == Some(pageNodes, LAMBDA node : NameIncludes(node, "focus"))
        hasSkipLink == Some(pageNodes, LAMBDA node :
                           NameIncludes(node, "skip") /\ NameIncludes(node, "navigation"))
    IN (IF ~hasFocusStyles
        THEN <<Issue("warning", "No visible focus indicators detected",
                     "accessibility", "important", NoId)>>
        ELSE <<>>)
       \o (IF ~hasSkipLink
           THEN <<Issue("info", "No skip navigation link detected",
                        "accessibility", "nice-to-have", NoId)>>
           ELSE <<>>)

\* for (const textNode of textNodes): the contrast warning of one text node
AccessibilityAnalyzer_contrastIssue(textNode) ==
    IF Truthy(textNode.color) /\ Truthy(textNode.backgroundColor)
    THEN LET color == toLowerCase(textNode.color)
             backgroundColor == toLowerCase(textNode.backgroundColor)
         IN IF \/ Includes(color, "light") /\ Includes(backgroundColor, "light")
               \/ Includes(color, "white") /\ Includes(backgroundColor, "light")
               \/ Includes(color, "yellow") /\ Includes(backgroundColor, "white")
               \/ Includes(color, "dark") /\ Includes(backgroundColor, "dark")
               \/ Includes(color, "black") /\ Includes(backgroundColor, "dark")
            THEN <<AccessibilityIssue("warning",
                       "Potential contrast issue in \"" \o textNode.name \o "\"",
                       "important", textNode)>>
            ELSE <<>>
    ELSE <<>>

\* faulty variant: the general reminder is left out
AccessibilityAnalyzer_checkColorContrast_Silent(pageNodes) ==
    LET textNodes == Filter(pageNodes, LAMBDA node :
                         \/ node.type = "text"
                         \/ NameIncludes(node, "text")
                         \/ NameIncludes(node, "paragraph")
                         \/ NameIncludes(node, "heading"))
    IN FlatMap(Map(textNodes, AccessibilityAnalyzer_contrastIssue), Len(textNodes))

AccessibilityAnalyzer_checkColorContrast(pageNodes) ==
    LET textNodes == Filter(pageNodes, LAMBDA node :
                         \/ node.type = "text"
                         \/ NameIncludes(node, "text")
                         \/ NameIncludes(node, "paragraph")
                         \/ NameIncludes(node, "heading"))
        warnings == FlatMap(Map(textNodes, AccessibilityAnalyzer_contrastIssue),
                            Len(textNodes))
    IN IF Len(warnings) = 0
       THEN <<Issue("info", "Verify color contrast in your design",
                    "accessibility", "important", NoId)>>
       ELSE warnings

AccessibilityAnalyzer_checkTextSize(pageNodes) ==
    LET smallTextNodes == Filter(pageNodes, LAMBDA node :
                              node.fontSize # 0 /\ node.fontSize < 12)
    IN (IF Len(smallTextNodes) > 0
        THEN <<Issue("warning", "Text size may be too small for some users",
                     "accessibility", "important", NoId),
               AccessibilityIssue("info",
                   "Small text found in \"" \o smallTextNodes[1].name \o "\" ("
                       \o ToString(smallTextNodes[1].fontSize) \o "px)",
                   "nice-to-have", smallTextNodes[1])>>
        ELSE <<>>)
       \o <<Issue("info", "Consider using relative units for text sizing",
                  "accessibility", "nice-to-have", NoId)>>

AccessibilityAnalyzer(pageNodes) ==
    AccessibilityAnalyzer_checkImageAltText(pageNodes)
    \o AccessibilityAnalyzer_checkAriaAttributes(pageNodes)
    \o AccessibilityAnalyzer_checkFormAccessibility(pageNodes)
    \o AccessibilityAnalyzer_checkKeyboardNavigation(pageNodes)
    \o AccessibilityAnalyzer_checkColorContrast(pageNodes)
    \o AccessibilityAnalyzer_checkTextSize(pageNodes)

(***************************************************************************)
(* analyzeNodes on pages, the accessibility checker's behaviour being what *)
(* AccessibilityAnalyzer does on the page (it throws on a node without the *)
(* name its type requires); the links checker returns one issue or none.   *)
(***************************************************************************)
StyledNode(id, name, pair, fontSize) ==
    [FramerNode(id, name) EXCEPT !.color = pair[1], !.backgroundColor = pair[2],
                                 !.fontSize = fontSize]

ColorPairs ==
    {<<Undefined, Undefined>>, <<"White", "LightGray">>, <<"black", "darkblue">>,
     <<"black", "white">>, <<"yellow", Undefined>>}

StyledNodes(id) ==
    {StyledNode(id, name, pair, fontSize) :
        name \in {"Text", "Frame"},
        pair \in ColorPairs,
        fontSize \in {0, 10, 16}}

AccessibilityPages ==
    {<<>>,
     <<FramerNode("n1", "Focus ring"), FramerNode("n2", "Skip navigation")>>,
     <<FramerNode("n1", "Signup form"), FramerNode("n2", "Email input"),
       [FramerNode("n3", "Dialog") EXCEPT !.role = "Dialog"],
       [FramerNode("n4", "Panel") EXCEPT !.role = "banner"]>>,
     <<FramerNode("n1", Undefined)>>}
    \cup {<<n>> : n \in StyledNodes("n1")}
    \cup {<<StyledNode("n1", "Heading", <<"white", "light">>, 16),
             StyledNode("n2", "Paragraph", pair, 16)>> : pair \in ColorPairs}

AccessibilityBehaviour(pageNodes) ==
    IF Nameless(pageNodes) THEN Throws
    ELSE Returns(AsFindings(AccessibilityAnalyzer(pageNodes)))

AccessibilityProfiles(pageNodes) ==
    {[c \in AnalyzerCategories |->
        CASE c = "accessibility" -> AccessibilityBehaviour(pageNodes)
          [] c = "links" -> o
          [] OTHER -> Returns(<<>>)] :
     o \in OneOrNone}

AccessibilityFilters == {NoFilter, FilterOf({"accessibility"}), FilterOf(SeoModeFilter)}

InitAccessibilityScore ==
    /\ page \in AccessibilityPages
    /\ nodes = NodeIds(page)
    /\ checkers \in AccessibilityProfiles(page)
    /\ filter \in AccessibilityFilters
    /\ checked = "none"
    /\ found = <<>>
    /\ hook = HookIdle("seo")
    /\ pc = "idle"
    /\ calls = 0
    /\ idx = 0
    /\ categoryIssues = <<>>
    /\ j = 0
    /\ enrichedIssues = <<>>
    /\ allIssues = <<>>
    /\ categories = InitialCategories
    /\ results = <<>>
    /\ ran = <<>>
    /\ rectLog = <<>>

SpecAccessibilityScore == InitAccessibilityScore /\ [][NextEnrich]_vars

(***************************************************************************)
(* new URL(href) without base, as far as the link checks depend on it: it  *)
(* succeeds when href starts with a scheme (and, for http and https, names *)
(* a host), and throws otherwise.  hostname is the host of an http(s) URL  *)
(* and empty for the other schemes.  Ports, credentials and percent        *)
(* encoding are not modelled.                                              *)
(***************************************************************************)
SchemeChars == LowerCase \o UpperCase \o "0123456789+-."

InString(c, str) == \E i \in 1..Len(str) : CharAt(str, i) = c

\* the index of the ':' that ends the scheme of href, 0 if href has no scheme
SchemeEnd(href) ==
    LET k == SkipWhile(href, 1, {CharAt(SchemeChars, i) : i \in 1..Len(SchemeChars)})
    IN IF k >= 2 /\ k <= Len(href) /\ CharAt(href, k) = ":"
          /\ InString(CharAt(href, 1), LowerCase \o UpperCase)
       THEN k ELSE 0

UrlScheme(href) == toLowerCase(SubSeq(href, 1, SchemeEnd(href) - 1))

\* the part of s from index i up to the first character of class
TakeUntil(s, i, class) == SubSeq(s, i, NextIn(s, i, class) - 1)

\* url.hostname of new URL(href), href with a scheme
UrlHostname(href) ==
    IF UrlScheme(href) \in {"http", "https"}
    THEN toLowerCase(TakeUntil(href, SkipWhile(href, SchemeEnd(href) + 1, {"/", "\\"}),
                               {"/", "\\", "?", "#", ":"}))
    ELSE ""

\* new URL(href) does not throw
UrlParses(href) ==
    /\ SchemeEnd(href) > 0
    /\ UrlScheme(href) \in {"http", "https"} => UrlHostname(href) # ""

\* href.startsWith("/") || "#" || "./" || "../"
LooksRelative(href) ==
    StartsWith(href, "/") \/ StartsWith(href, "#") \/ StartsWith(href, "./")
       \/ StartsWith(href, "../")

\* url.hostname && !includes("localhost") && !includes("127.0.0.1")
IsExternalHost(hostname) ==
    hostname # "" /\ ~Includes(hostname, "localhost") /\ ~Includes(hostname, "127.0.0.1")

(***************************************************************************)
(* LinksAnalyzer.                                                          *)
(***************************************************************************)
LinkIssue(type, message, priority, node) == Issue(type, message, "links", priority, node.id)

LinkNote(type, message, priority) == Issue(type, message, "links", priority, NoId)

\* checkBrokenLinks, linkNodes.forEach: the issues of one link
LinksAnalyzer_brokenLinkIssues(linkNode) ==
    LET href == OrElse(linkNode.href, "") IN
    IF href = ""
    THEN <<LinkIssue("error", "Empty href in link \"" \o linkNode.name \o "\"",
                     "critical", linkNode)>>
    ELSE IF href = "#" \/ href = "javascript:void(0)"
    THEN <<LinkIssue("warning",
                     "Placeholder link href=\"" \o href \o "\" in \"" \o linkNode.name \o "\"",
                     "important", linkNode)>>
    ELSE (IF \/ Includes(href, "example.com") \/ Includes(href, "placeholder")
             \/ Includes(href, "dummy") \/ Includes(href, "test") \/ Includes(href, ".temp")
          THEN <<LinkIssue("warning", "Potentially broken link: " \o href, "critical", linkNode)>>
          ELSE <<>>)
         \o
         (IF ~UrlParses(href) /\ ~LooksRelative(href)
          THEN <<LinkIssue("warning", "Potentially malformed URL: " \o href, "important",
                           linkNode)>>
          ELSE <<>>)

\* faulty variant: no closing reminder
LinksAnalyzer_closingReminder_Dropped == <<>>

\* the last push of checkBrokenLinks
LinksAnalyzer_closingReminder ==
    <<LinkNote("info", "Verify all links work in production", "important")>>

LinksAnalyzer_checkBrokenLinks(pageNodes) ==
    LET linkNodes == Filter(pageNodes, LAMBDA node :
                         \/ Truthy(node.href)
                         \/ NameIncludes(node, "link")
                         \/ NameIncludes(node, "anchor")
                         \/ node.role = "link")
    IN IF Len(linkNodes) = 0
       THEN <<LinkNote("info", "No links detected on the page", "important")>>
       ELSE FlatMap(Map(linkNodes, LinksAnalyzer_brokenLinkIssues), Len(linkNodes))
            \o LinksAnalyzer_closingReminder

genericPhrases == <<"click here", "read more", "learn more", "more info", "details", "link">>

\* checkLinkText, linkNodes.forEach: the issues of one link
LinksAnalyzer_linkTextIssues(linkNode) ==
    LET linkText == toLowerCase(linkNode.text) IN
    (IF Some(genericPhrases, LAMBDA phrase : Includes(linkText, phrase)) /\ Len(linkText) < 20
     THEN <<LinkIssue("warning", "Generic link text: \"" \o linkNode.text \o "\"",
                      "important", linkNode)>>
     ELSE <<>>)
    \o
    (IF Len(linkText) > 100
     THEN <<LinkIssue("info",
                      "Very long link text (" \o ToString(Len(linkText)) \o " characters)",
                      "nice-to-have", linkNode)>>
     ELSE <<>>)

LinksAnalyzer_checkLinkText(pageNodes) ==
    LET linkNodes == Filter(pageNodes, LAMBDA node :
                         /\ (Truthy(node.href) \/ node.role = "link" \/ NameIncludes(node, "link"))
                         /\ Truthy(node.text))
    IN FlatMap(Map(linkNodes, LinksAnalyzer_linkTextIssues), Len(linkNodes))

spamDomains == <<"casino", "pharma", "pills", "betting", "loan", "kredit", "xxx">>

RelIncludes(node, word) == node.rel # Undefined /\ Includes(node.rel, word)

LinksAnalyzer_securityIssue(linkNode) ==
    LET hasTargetBlank == \/ NameIncludes(linkNode, "blank")
                          \/ NameIncludes(linkNode, "newwindow")
                          \/ NameIncludes(linkNode, "external")
    IN IF hasTargetBlank
          /\ ~(RelIncludes(linkNode, "noopener") \/ RelIncludes(linkNode, "noreferrer"))
       THEN <<LinkIssue("warning",
                        "External link missing security attributes: " \o linkNode.href,
                        "important", linkNode)>>
       ELSE <<>>

LinksAnalyzer_spamIssue(linkNode) ==
    IF Some(spamDomains, LAMBDA domain : Includes(UrlHostname(linkNode.href), domain))
    THEN <<LinkIssue("error", "Potential spam domain in link: " \o linkNode.href,
                     "critical", linkNode)>>
    ELSE <<>>

LinksAnalyzer_checkExternalLinks(pageNodes) ==
    LET externalLinkNodes == Filter(pageNodes, LAMBDA node :
                                 /\ Truthy(node.href)
                                 /\ UrlParses(node.href)
                                 /\ IsExternalHost(UrlHostname(node.href)))
    IN FlatMap(Map(externalLinkNodes, LinksAnalyzer_securityIssue), Len(externalLinkNodes))
       \o FlatMap(Map(externalLinkNodes, LinksAnalyzer_spamIssue), Len(externalLinkNodes))

\* the test both loops of checkInternalLinking make on a link with href
IsInternalHref(href) ==
    IF UrlParses(href) THEN ~IsExternalHost(UrlHostname(href)) ELSE LooksRelative(href)

\* faulty variant: five internal links are asked for
LinksAnalyzer_checkInternalLinking_Five(pageNodes) ==
    IF Len(pageNodes) < 5
    THEN <<LinkNote("warning", "Limited internal linking detected", "important")>>
    ELSE <<>>

LinksAnalyzer_checkInternalLinking(pageNodes) ==
    LET linkNodes == Filter(pageNodes, LAMBDA node :
                         Truthy(node.href) \/ NameIncludes(node, "link") \/ node.role = "link")
        internalLinks == Filter(linkNodes, LAMBDA node :
                             Truthy(node.href) /\ IsInternalHref(node.href))
        internalLinkCount == Len(internalLinks)
        linkTexts == SelectSeq(Map(internalLinks, LAMBDA node :
                                   IF node.text = Undefined THEN "" ELSE toLowerCase(node.text)),
                               LAMBDA text : text # "")
        duplicateTexts == SelectSeq(Dedup(linkTexts),
                                    LAMBDA text : Occurrences(linkTexts, text) > 1)
    IN (IF internalLinkCount < 3 /\ Len(linkNodes) > 0
        THEN <<LinkNote("warning", "Limited internal linking detected", "important")>>
        ELSE <<>>)
       \o
       (IF Len(duplicateTexts) > 0
        THEN <<LinkNote("info", "Duplicate link text found: " \o Join(duplicateTexts, ", "),
                        "nice-to-have")>>
        ELSE <<>>)

\* LinksAnalyzer.analyze
LinksAnalyzer(pageNodes) ==
    LinksAnalyzer_checkBrokenLinks(pageNodes)
    \o LinksAnalyzer_checkLinkText(pageNodes)
    \o LinksAnalyzer_checkExternalLinks(pageNodes)
    \o LinksAnalyzer_checkInternalLinking(pageNodes)

LinkNode(id, name, href, text) ==
    [FramerNode(id, name) EXCEPT !.href = href, !.text = text]

Hrefs ==
    {Undefined, "", "#", "/about", "#top", "./a", "../b", "/contest", "about.html",
     "https://example.com/x", "https://site.org/", "http://localhost/x",
     "https://casino.io", "mailto:a@b.c"}

LinkTexts ==
    {Undefined, "Home", "home", "About us", "click here",
     RepeatString("long anchor ", 9)}

\* pages of one node, which is a link or a plain frame, and pages of three
\* links with relative hrefs
LinkPages ==
    {<<>>, <<FramerNode("n1", "Frame")>>, <<TextNode("n1", "Hero", "Hello")>>}
    \cup {<<LinkNode("n1", name, href, text)>> :
            name \in {"Link", "External"}, href \in Hrefs, text \in LinkTexts}
    \cup {<<LinkNode("n1", "Nav", "/about", t1), LinkNode("n2", "Nav", "#top", t2),
            LinkNode("n3", "Nav", h3, t3)>> :
            t1 \in {"Home", "Pricing"}, t2 \in LinkTexts, t3 \in LinkTexts,
            h3 \in {"./a", "../b", "/contest", "#"}}

InitLinks == InitCheck(LinkPages)

ApplyLinksAnalyzer == Apply("links", LinksAnalyzer(page))

NextLinks == ApplyLinksAnalyzer

SpecLinks == InitLinks /\ [][NextLinks]_vars

(***************************************************************************)
(* MetadataAnalyzer.                                                       *)
(***************************************************************************)
\* the index of the node nodes.find(pred) returns, 0 for undefined
FindIndex(array, Pred(_)) ==
    IF \E i \in 1..Len(array) : Pred(array[i])
    THEN CHOOSE i \in 1..Len(array) : Pred(array[i]) /\ \A k \in 1..(i - 1) : ~Pred(array[k])
    ELSE 0

RECURSIVE SplitOn(_, _, _, _)
\* s.split(sep) for a separator of one character, from index i on
SplitOn(s, i, cur, sep) ==
    LET k == NextIn(s, i, {sep}) IN
    IF k > Len(s) THEN <<cur \o SubSeq(s, i, Len(s))>>
    ELSE <<cur \o SubSeq(s, i, k - 1)>> \o SplitOn(s, k + 1, "", sep)

MetadataIssue(type, message, priority) == Issue(type, message, "metadata", priority, NoId)

\* the words getKeywords takes from the text of the title or of the H1
KeywordsOf(text) ==
    Slice(Map(Filter(SplitOn(text, 1, "", " "), LAMBDA word : Len(word) > 3),
              LAMBDA word : toLowerCase(word)), 3)

IsMetaNode(node, metaName) ==
    \/ node.metaName = metaName
    \/ NameIncludes(node, "meta") /\ NameIncludes(node, metaName)

IsTitleNode(node) == toLowerCase(node.name) = "title" \/ NameIncludes(node, "title-tag")

MetadataAnalyzer_getKeywords(pageNodes) ==
    LET keywordsNode == FindIndex(pageNodes, LAMBDA node : IsMetaNode(node, "keywords"))
        title == FindIndex(pageNodes, IsTitleNode)
        h1 == FindIndex(pageNodes, LAMBDA node :
                  toLowerCase(node.name) = "h1" \/ NameIncludes(node, "heading1"))
    IN IF keywordsNode # 0 /\ Truthy(pageNodes[keywordsNode].metaContent)
       THEN Map(SplitOn(pageNodes[keywordsNode].metaContent, 1, "", ","),
                LAMBDA k : toLowerCase(Trim(k)))
       ELSE Dedup((IF title # 0 /\ Truthy(pageNodes[title].text)
                   THEN KeywordsOf(pageNodes[title].text) ELSE <<>>)
                  \o
                  (IF h1 # 0 /\ Truthy(pageNodes[h1].text)
                   THEN KeywordsOf(pageNodes[h1].text) ELSE <<>>))

MetadataAnalyzer_containsKeyword(text, keywords) ==
    \/ Len(keywords) = 0
    \/ Some(keywords, LAMBDA keyword : Includes(toLowerCase(text), keyword))

\* faulty variant: a title of exactly 30 characters is too short
MetadataAnalyzer_titleLengthIssues_Inclusive(titleText) ==
    IF Len(titleText) <= 30
    THEN <<MetadataIssue("warning", "Title tag is too short", "important")>>
    ELSE IF Len(titleText) > 60
    THEN <<MetadataIssue("warning", "Title tag is too long", "important")>>
    ELSE <<>>

\* checkTitleTag, the length test
MetadataAnalyzer_titleLengthIssues(titleText) ==
    IF Len(titleText) < 30
    THEN <<MetadataIssue("warning", "Title tag is too short", "important")>>
    ELSE IF Len(titleText) > 60
    THEN <<MetadataIssue("warning", "Title tag is too long", "important")>>
    ELSE <<>>

MetadataAnalyzer_checkTitleTag(pageNodes) ==
    LET titleNode == FindIndex(pageNodes, IsTitleNode) IN
    IF titleNode = 0
    THEN <<MetadataIssue("error", "Missing title tag", "critical")>>
    ELSE LET titleText == OrElse(pageNodes[titleNode].text, "") IN
         MetadataAnalyzer_titleLengthIssues(titleText)
         \o
         (IF ~MetadataAnalyzer_containsKeyword(titleText, MetadataAnalyzer_getKeywords(pageNodes))
          THEN <<MetadataIssue("warning", "Title tag doesn't contain primary keyword",
                               "important")>>
          ELSE <<>>)

MetadataAnalyzer_checkMetaDescription(pageNodes) ==
    LET descriptionNode == FindIndex(pageNodes, LAMBDA node : IsMetaNode(node, "description")) IN
    IF descriptionNode = 0
    THEN <<MetadataIssue("error", "Missing meta description", "critical")>>
    ELSE LET descriptionText == OrElse(pageNodes[descriptionNode].text,
                                       OrElse(pageNodes[descriptionNode].metaContent, "")) IN
         (IF Len(descriptionText) < 120
          THEN <<MetadataIssue("warning", "Meta description is too short", "important")>>
          ELSE IF Len(descriptionText) > 158
          THEN <<MetadataIssue("warning", "Meta description is too long", "important")>>
          ELSE <<>>)
         \o
         (IF ~MetadataAnalyzer_containsKeyword(descriptionText,
                                               MetadataAnalyzer_getKeywords(pageNodes))
          THEN <<MetadataIssue("warning", "Meta description doesn't contain primary keyword",
                               "important")>>
          ELSE <<>>)

MetadataAnalyzer_checkMetaViewport(pageNodes) ==
    LET viewportNode == FindIndex(pageNodes, LAMBDA node : IsMetaNode(node, "viewport")) IN
    IF viewportNode = 0
    THEN <<MetadataIssue("error", "Missing meta viewport tag", "critical")>>
    ELSE LET viewportContent == OrElse(pageNodes[viewportNode].metaContent, "") IN
         IF ~Includes(viewportContent, "width=device-width")
            \/ ~Includes(viewportContent, "initial-scale=1")
         THEN <<MetadataIssue("warning", "Incomplete meta viewport tag", "important")>>
         ELSE <<>>

MetadataAnalyzer_checkCanonicalUrl(pageNodes) ==
    IF FindIndex(pageNodes, LAMBDA node :
           node.rel = "canonical" \/ (NameIncludes(node, "link") /\ NameIncludes(node, "canonical")))
       = 0
    THEN <<MetadataIssue("warning", "Missing canonical URL", "important")>>
    ELSE <<>>

MetadataAnalyzer_checkLanguageAttribute(pageNodes) ==
    IF FindIndex(pageNodes, LAMBDA node :
           NameIncludes(node, "html-lang") \/ (NameIncludes(node, "html") /\ NameIncludes(node, "lang")))
       = 0
    THEN <<MetadataIssue("warning", "Missing language attribute on HTML tag", "important")>>
    ELSE <<>>

MetadataAnalyzer_checkMetaRobots(pageNodes) ==
    LET robotsNode == FindIndex(pageNodes, LAMBDA node : IsMetaNode(node, "robots")) IN
    IF robotsNode = 0
    THEN <<MetadataIssue("info", "No meta robots tag found", "nice-to-have")>>
    ELSE LET robotsContent == OrElse(pageNodes[robotsNode].metaContent, "") IN
         IF Includes(robotsContent, "noindex") \/ Includes(robotsContent, "nofollow")
         THEN <<MetadataIssue("warning",
                              "Meta robots tag contains "
                                 \o (IF Includes(robotsContent, "noindex")
                                     THEN "noindex" ELSE "nofollow"),
                              "critical")>>
         ELSE <<>>

MetadataAnalyzer_checkFavicon(pageNodes) ==
    IF FindIndex(pageNodes, LAMBDA node :
           \/ node.rel = "icon" \/ node.rel = "shortcut icon"
           \/ NameIncludes(node, "favicon")
           \/ (NameIncludes(node, "link") /\ NameIncludes(node, "icon")))
       = 0
    THEN <<MetadataIssue("info", "Missing favicon", "nice-to-have")>>
    ELSE <<>>

\* MetadataAnalyzer.analyze
MetadataAnalyzer(pageNodes) ==
    MetadataAnalyzer_checkTitleTag(pageNodes)
    \o MetadataAnalyzer_checkMetaDescription(pageNodes)
    \o MetadataAnalyzer_checkMetaViewport(pageNodes)
    \o MetadataAnalyzer_checkCanonicalUrl(pageNodes)
    \o MetadataAnalyzer_checkLanguageAttribute(pageNodes)
    \o MetadataAnalyzer_checkMetaRobots(pageNodes)
    \o MetadataAnalyzer_checkFavicon(pageNodes)

MetaNode(id, name, metaName, metaContent) ==
    [FramerNode(id, name) EXCEPT !.metaName = metaName, !.metaContent = metaContent]

\* title texts on both sides of the limits 30 and 60
TitleTexts ==
    {Undefined, "", "Short"}
    \cup {SubSeq(RepeatString("Framer plugin ", 5), 1, n) : n \in {29, 30, 31, 59, 60, 61, 70}}

TitleNodes ==
    {TextNode("t", name, text) : name \in {"title", "Title", "page-title-tag"},
                                  text \in TitleTexts}

DescriptionNodes ==
    {TextNode("d", "meta description", "About the framer plugin"),
     MetaNode("d", "Head", "description", RepeatString("framer seo ", 6))}

OtherHeadNodes ==
    {TextNode("h", "H1", "Welcome home everybody"),
     MetaNode("k", "meta keywords", "keywords", "seo, Plugin"),
     MetaNode("r", "meta robots", "robots", "noindex"),
     MetaNode("v", "meta viewport", "viewport", "width=device-width, initial-scale=1")}

\* pages with or without a title, a description and one more head node; in
\* the last family a title-tag node comes before the node named title
MetadataPages ==
    {<<>>, <<FramerNode("n1", "Frame")>>}
    \cup {<<d>> : d \in DescriptionNodes}
    \cup {<<t>> : t \in TitleNodes}
    \cup {<<t, d>> : t \in TitleNodes, d \in DescriptionNodes}
    \cup {<<o, t>> : o \in OtherHeadNodes, t \in TitleNodes}
    \cup {<<TextNode("t0", "page-title-tag", text), TextNode("t", "title", "Short")>> :
            text \in TitleTexts}

InitMetadata == InitCheck(MetadataPages)

ApplyMetadataAnalyzer == Apply("metadata", MetadataAnalyzer(page))

NextMetadata == ApplyMetadataAnalyzer

SpecMetadata == InitMetadata /\ [][NextMetadata]_vars

(***************************************************************************)
(* The constructor of SEOAnalyzerService replaces analyzers.metadata by a  *)
(* composite of the MetadataAnalyzer registered there and of an            *)
(* InternationalAnalyzer.  The two stay in the closure of the composite:   *)
(* checkers holds their behaviour under the names the constructor gives    *)
(* them.                                                                   *)
(***************************************************************************)
\* faulty variant: the international issues come first
CompositeAnalyze_InternationalFirst(metadataIssues, internationalIssues) ==
    internationalIssues \o metadataIssues

\* [...metadataIssues, ...internationalIssues]
CompositeAnalyze(metadataIssues, internationalIssues) ==
    metadataIssues \o internationalIssues

\* the composite analyzer on a node list: it throws when one of the two
\* throws
CompositeMetadataAnalyzer(existingMetadataAnalyzer, internationalAnalyzer) ==
    IF existingMetadataAnalyzer.throws \/ internationalAnalyzer.throws
    THEN Throws
    ELSE Returns(CompositeAnalyze(existingMetadataAnalyzer.findings,
                                  internationalAnalyzer.findings))

MetadataBehaviours ==
    {Returns(<<>>),
     Returns(<<Finding("error", "critical", NoId)>>),
     Returns(<<Finding("warning", "important", NoId), Finding("info", "nice-to-have", NoId)>>),
     Throws}

InternationalBehaviours ==
    {Returns(<<>>),
     Returns(<<Finding("info", "nice-to-have", NoId)>>),
     Returns(<<Finding("warning", "important", NoId), Finding("error", "critical", NoId)>>),
     Throws}

CompositeProfiles ==
    {[c \in AnalyzerCategories \cup {"existingMetadataAnalyzer", "internationalAnalyzer"} |->
        CASE c = "existingMetadataAnalyzer" -> m
          [] c = "internationalAnalyzer" -> i
          [] c = "metadata" -> CompositeMetadataAnalyzer(m, i)
          [] c = "social" -> o
          [] OTHER -> Returns(<<>>)] :
     m \in MetadataBehaviours, i \in InternationalBehaviours, o \in OneOrNone}

InitComposite ==
    /\ checkers \in CompositeProfiles
    /\ filter \in Filters
    /\ nodes \in NodeLists
    /\ pc = "idle"
    /\ calls = 0
    /\ idx = 0
    /\ categoryIssues = <<>>
    /\ j = 0
    /\ enrichedIssues = <<>>
    /\ allIssues = <<>>
    /\ categories = InitialCategories
    /\ results = <<>>
    /\ ran = <<>>
    /\ rectLog = <<>>
    /\ NothingChecked

SpecComposite == InitComposite /\ [][NextEnrich]_vars

(***************************************************************************)
(* useAnalyzer.runAnalysis with the service's createNodesFromFramerSelection, *)
(* which asks the host for the nodes of the page.  `page` is the host's    *)
(* page.  The simulated delay of runAnalysis only takes time.              *)
(***************************************************************************)
getFilterForMode(mode) ==
    CASE mode = "accessibility" -> {"accessibility"}
      [] mode = "links" -> {"links"}
      [] OTHER -> SeoModeFilter

\* what analyzeNodes(nodes, { filter: cats }) returns when no checker finds
\* anything: the checkers of the categories in cats have run, in order
QuietResult(cats) ==
    <<[issues |-> <<>>,
       score |-> calculateOverallScore(ScoreCategories(InitialCategories)),
       categories |-> ScoreCategories(InitialCategories),
       ran |-> SelectSeq(AnalyzerOrder, LAMBDA category : category \in cats),
       rects |-> <<>>]>>

\* runAnalysis is called: setIsAnalyzing(true)
RunAnalysis ==
    /\ hook.step = "idle"
    /\ hook' = [hook EXCEPT !.step = "collecting", !.isAnalyzing = TRUE]
    /\ UNCHANGED <<page, checked, found, nodes, filter, checkers, engine>>

\* createNodesFromFramerSelection, a host call fails: the catch block logs
\* and returns []; runAnalysis goes on with the filter of the mode
CollectNodesFails ==
    /\ hook.step = "collecting"
    /\ nodes' = <<>>
    /\ filter' = FilterOf(getFilterForMode(hook.analysisMode))
    /\ hook' = [hook EXCEPT !.step = "analyzing", !.collected = "failed"]
    /\ UNCHANGED <<page, checked, found, checkers, pc, calls, idx, categoryIssues, j,
                   enrichedIssues, allIssues, categories, results, ran, rectLog>>

\* createNodesFromFramerSelection, the host answers: the nodes of the page
CollectNodes ==
    /\ hook.step = "collecting"
    /\ nodes' = NodeIds(page)
    /\ filter' = FilterOf(getFilterForMode(hook.analysisMode))
    /\ hook' = [hook EXCEPT !.step = "analyzing", !.collected = "ok"]
    /\ UNCHANGED <<page, checked, found, checkers, pc, calls, idx, categoryIssues, j,
                   enrichedIssues, allIssues, categories, results, ran, rectLog>>

\* seoAnalyzer.analyzeNodes(nodes, { filter }) is called
CallAnalyzeNodes == hook.step = "analyzing" /\ StartAnalyzeOnce

\* analyzeNodes returned: storeResults(analysisMode, result), then finally
StoreResults ==
    /\ hook.step = "analyzing"
    /\ pc = "done"
    /\ hook' = [hook EXCEPT !.step = "finished", !.isAnalyzing = FALSE,
                            !.stored[hook.analysisMode] = results]
    /\ UNCHANGED <<page, checked, found, nodes, filter, checkers, engine>>

\* faulty variant: setIsAnalyzing(false) sits in the try block, not in finally
CatchError_NoFinally ==
    /\ hook.step = "analyzing"
    /\ pc = "rejected"
    /\ hook' = [hook EXCEPT !.step = "finished", !.errors = @ + 1]
    /\ UNCHANGED <<page, checked, found, nodes, filter, checkers, engine>>

\* analyzeNodes was rejected: catch logs the error, then finally
CatchError ==
    /\ hook.step = "analyzing"
    /\ pc = "rejected"
    /\ hook' = [hook EXCEPT !.step = "finished", !.isAnalyzing = FALSE, !.errors = @ + 1]
    /\ UNCHANGED <<page, checked, found, nodes, filter, checkers, engine>>

\* the checkers find nothing, or one names an element twice, or one finds an
\* issue, or one throws
RunProfiles ==
    {AllQuiet}
    \cup {[AllQuiet EXCEPT ![c] = TwoElements] : c \in {"images", "accessibility", "links"}}
    \cup {[AllQuiet EXCEPT ![c] = b] :
            c \in {"metadata", "accessibility", "links"},
            b \in {Returns(<<Finding("error", "critical", NoId)>>), Throws}}

HostPages == {<<>>, <<FramerNode("n1", "Frame")>>}

\* what the context stores when runAnalysis is called in `mode`: nothing for
\* that mode (the Analyze button shows without a result, Reanalyze resets it
\* first), and nothing or an earlier result for the other modes
RunStores(mode) ==
    {[m \in AnalysisModes |->
        IF m \in earlier THEN QuietResult(getFilterForMode(m)) ELSE <<>>] :
     earlier \in {{}, AnalysisModes \ {mode}}}

InitRun ==
    /\ page \in HostPages
    /\ checked = "none"
    /\ found = <<>>
    /\ hook \in UNION {{[HookIdle(mode) EXCEPT !.stored = stores] :
                            stores \in RunStores(mode)} : mode \in AnalysisModes}
    /\ checkers \in RunProfiles
    /\ nodes = <<>>
    /\ filter = NoFilter
    /\ pc = "idle"
    /\ calls = 0
    /\ idx = 0
    /\ categoryIssues = <<>>
    /\ j = 0
    /\ enrichedIssues = <<>>
    /\ allIssues = <<>>
    /\ categories = InitialCategories
    /\ results = <<>>
    /\ ran = <<>>
    /\ rectLog = <<>>

NextRun ==
    \/ RunAnalysis
    \/ CollectNodes
    \/ CollectNodesFails
    \/ CallAnalyzeNodes
    \/ SkipChecker
    \/ RunChecker
    \/ CheckerThrows
    \/ EnrichIssue
    \/ CommitChecker
    \/ ComputeScores
    \/ StoreResults
    \/ CatchError

SpecRun == InitRun /\ [][NextRun]_vars

\* the steps of a run other than the last step of analyzeNodes
RunProceeds ==
    \/ RunAnalysis
    \/ CollectNodes
    \/ CollectNodesFails
    \/ CallAnalyzeNodes
    \/ SkipChecker
    \/ RunChecker
    \/ CheckerThrows
    \/ EnrichIssue
    \/ CommitChecker
    \/ StoreResults
    \/ CatchError

\* the last step of analyzeNodes (ComputeScores), told by the place it leaves
AnalyzeNodesReturns == pc = "loop" /\ idx > Len(AnalyzerOrder) /\ pc' = "done"

\* every await of runAnalysis settles: the host answers, the timer of the
\* simulated delay fires, and the event loop runs the continuation
SpecRunFair == SpecRun /\ WF_vars(RunProceeds) /\ WF_pc(AnalyzeNodesReturns)

(***************************************************************************)
(* The plugin window: the state of AnalysisProvider, the mode tabs, the    *)
(* Analyze and Reanalyze buttons, the category tabs and Download Report.   *)
(* A call of analyzeNodes is in flight from the step that makes it to the  *)
(* step that takes its result; the checkers find nothing, so that the call *)
(* returns QuietResult of its filter, or it throws.                        *)
(***************************************************************************)
ModeOrder == <<"seo", "accessibility", "links">>

\* the filters of ensureAllCategoriesAnalyzed
ReportFilterFor(mode) ==
    CASE mode = "accessibility" -> {"accessibility"}
      [] mode = "links" -> {"links"}
      [] OTHER -> {"metadata", "structure", "images", "content", "social"}

\* the category tabs offered for a mode, besides 'all'
CategoryTabs(mode) ==
    CASE mode = "accessibility" -> {"accessibility"}
      [] mode = "links" -> {"links"}
      [] OTHER -> {"metadata"}

\* getCurrentResults
getCurrentResults == hook.stored[hook.analysisMode]

\* faulty variant: the tabs are not disabled while isAnalyzing
handleAnalysisModeChange_Enabled(mode) ==
    /\ hook' = [hook EXCEPT !.analysisMode = mode, !.category[mode] = "all"]
    /\ UNCHANGED <<page, checked, found, engine>>

\* a mode tab is clicked (disabled while isAnalyzing):
\* handleAnalysisModeChange sets the mode and resets its category to 'all'
handleAnalysisModeChange(mode) ==
    /\ ~hook.isAnalyzing
    /\ hook' = [hook EXCEPT !.analysisMode = mode, !.category[mode] = "all"]
    /\ UNCHANGED <<page, checked, found, engine>>

\* a category tab of AnalysisResults is clicked: setCurrentCategory
setCurrentCategory(category) ==
    /\ getCurrentResults # <<>>
    /\ hook' = [hook EXCEPT !.category[hook.analysisMode] = category]
    /\ UNCHANGED <<page, checked, found, engine>>

\* the Analyze button (shown without a current result, disabled while
\* isAnalyzing) is clicked: runAnalysis up to its first await
handleAnalyze ==
    /\ getCurrentResults = <<>>
    /\ ~hook.isAnalyzing
    /\ hook.step = "idle"
    /\ hook' = [hook EXCEPT !.step = "collecting", !.isAnalyzing = TRUE,
                            !.runMode = hook.analysisMode]
    /\ UNCHANGED <<page, checked, found, engine>>

\* the Reanalyze button (shown with a current result, disabled while
\* isAnalyzing) is clicked: resetResults(), then runAnalysis
handleReanalyze ==
    /\ getCurrentResults # <<>>
    /\ ~hook.isAnalyzing
    /\ hook.step = "idle"
    /\ hook' = [hook EXCEPT !.step = "collecting", !.isAnalyzing = TRUE,
                            !.runMode = hook.analysisMode,
                            !.stored[hook.analysisMode] = <<>>]
    /\ UNCHANGED <<page, checked, found, engine>>

\* runAnalysis: the nodes are collected, the delay is over, analyzeNodes is
\* called with getFilterForMode(analysisMode)
runAnalysis_calls ==
    /\ hook.step = "collecting"
    /\ hook' = [hook EXCEPT !.step = "analyzing"]
    /\ UNCHANGED <<page, checked, found, engine>>

\* runAnalysis: analyzeNodes returned; storeResults(analysisMode, result),
\* then finally
runAnalysis_stores ==
    /\ hook.step = "analyzing"
    /\ hook' = [hook EXCEPT !.step = "idle", !.isAnalyzing = FALSE,
                            !.runMode = "none",
                            !.stored[hook.runMode] =
                                QuietResult(getFilterForMode(hook.runMode))]
    /\ UNCHANGED <<page, checked, found, engine>>

\* runAnalysis: analyzeNodes threw; catch, then finally
runAnalysis_catches ==
    /\ hook.step = "analyzing"
    /\ hook' = [hook EXCEPT !.step = "idle", !.isAnalyzing = FALSE,
                            !.runMode = "none"]
    /\ UNCHANGED <<page, checked, found, engine>>

\* Download Report (shown with a current result, never disabled) is clicked:
\* initiateDownload enters ensureAllCategoriesAnalyzed
initiateDownload ==
    /\ getCurrentResults # <<>>
    /\ hook.download.at = 0
    /\ hook' = [hook EXCEPT !.download = [at |-> 1, calling |-> FALSE,
                                          seen |-> hook.stored]]
    /\ UNCHANGED <<page, checked, found, engine>>

\* ensureAllCategoriesAnalyzed: the mode had a result when the window was
\* rendered, its test fails
ensureAllCategoriesAnalyzed_skips ==
    /\ hook.download.at \in 1..3
    /\ ~hook.download.calling
    /\ hook.download.seen[ModeOrder[hook.download.at]] # <<>>
    /\ hook' = [hook EXCEPT !.download.at = @ + 1]
    /\ UNCHANGED <<page, checked, found, engine>>

\* ensureAllCategoriesAnalyzed: the mode had no result, analyzeNodes is
\* called with the filter written for it
ensureAllCategoriesAnalyzed_calls ==
    /\ hook.download.at \in 1..3
    /\ ~hook.download.calling
    /\ hook.download.seen[ModeOrder[hook.download.at]] = <<>>
    /\ hook' = [hook EXCEPT !.download.calling = TRUE]
    /\ UNCHANGED <<page, checked, found, engine>>

\* ensureAllCategoriesAnalyzed: analyzeNodes returned; setSeoResults,
\* setAccessibilityResults or setLinksResults
ensureAllCategoriesAnalyzed_stores ==
    /\ hook.download.calling
    /\ LET mode == ModeOrder[hook.download.at]
       IN hook' = [hook EXCEPT !.download.calling = FALSE,
                               !.download.at = @ + 1,
                               !.stored[mode] = QuietResult(ReportFilterFor(mode))]
    /\ UNCHANGED <<page, checked, found, engine>>

\* ensureAllCategoriesAnalyzed: analyzeNodes threw; initiateDownload is
\* rejected and no report is generated
ensureAllCategoriesAnalyzed_throws ==
    /\ hook.download.calling
    /\ hook' = [hook EXCEPT !.download = DownloadIdle]
    /\ UNCHANGED <<page, checked, found, engine>>

\* generateAndDownloadReport: the report is made of seoResults,
\* accessibilityResults and linksResults of the same render
generateAndDownloadReport ==
    /\ hook.download.at = 4
    /\ hook' = [hook EXCEPT !.report = <<hook.download.seen>>,
                            !.download = DownloadIdle]
    /\ UNCHANGED <<page, checked, found, engine>>

InitUI ==
    /\ page = <<>>
    /\ checked = "none"
    /\ found = <<>>
    /\ hook = HookIdle("seo")
    /\ EngineIdle

NextUI ==
    \/ \E mode \in AnalysisModes : handleAnalysisModeChange(mode)
    \/ \E category \in {"all"} \cup CategoryTabs(hook.analysisMode) :
          setCurrentCategory(category)
    \/ handleAnalyze
    \/ handleReanalyze
    \/ runAnalysis_calls
    \/ runAnalysis_stores
    \/ runAnalysis_catches
    \/ initiateDownload
    \/ ensureAllCategoriesAnalyzed_skips
    \/ ensureAllCategoriesAnalyzed_calls
    \/ ensureAllCategoriesAnalyzed_stores
    \/ ensureAllCategoriesAnalyzed_throws
    \/ generateAndDownloadReport

SpecUI == InitUI /\ [][NextUI]_vars

(***************************************************************************)
(* ImagesAnalyzer.checkAltText.  `page` is the list of image nodes analyze *)
(* hands to it.                                                            *)
(***************************************************************************)
ImagesIssue(type, message, priority, elementId) ==
    Issue(type, message, "images", priority, elementId)

\* !node.name.includes("decorative") && !node.name.includes("background")
NotDecorative(node) ==
    ~Includes(node.name, "decorative") /\ ~Includes(node.name, "background")

\* faulty variant: every image without alt text is listed
ImagesAnalyzer_listedImages_All(imagesWithoutAlt) == imagesWithoutAlt

\* imagesWithoutAlt.forEach with index < 5
ImagesAnalyzer_listedImages(imagesWithoutAlt) == Slice(imagesWithoutAlt, 5)

ImagesAnalyzer_checkAltText(imageNodes) ==
    LET imagesWithoutAlt == Filter(imageNodes, LAMBDA node :
                                ~Truthy(node.alt) /\ NotDecorative(node))
        shortAltTextImages == Filter(imageNodes, LAMBDA node :
                                  Truthy(node.alt) /\ Len(node.alt) < 5 /\ NotDecorative(node))
    IN (IF Len(imagesWithoutAlt) > 0
        THEN <<ImagesIssue("error",
                           ToString(Len(imagesWithoutAlt)) \o " image"
                              \o (IF Len(imagesWithoutAlt) > 1 THEN "s" ELSE "")
                              \o " without alt text",
                           "critical", NoId)>>
             \o Map(ImagesAnalyzer_listedImages(imagesWithoutAlt), LAMBDA node :
                        ImagesIssue("info", "Image '" \o node.name \o "' is missing alt text",
                                    "critical", node.id))
             \o (IF Len(imagesWithoutAlt) > 5
                 THEN <<ImagesIssue("info",
                                    "And " \o ToString(Len(imagesWithoutAlt) - 5)
                                       \o " more images without alt text",
                                    "important", NoId)>>
                 ELSE <<>>)
        ELSE <<>>)
       \o
       (IF Len(shortAltTextImages) > 0
        THEN <<ImagesIssue("warning",
                           ToString(Len(shortAltTextImages)) \o " image"
                              \o (IF Len(shortAltTextImages) > 1 THEN "s have" ELSE " has")
                              \o " very short alt text",
                           "important", NoId)>>
        ELSE <<>>)

\* the k-th image node of a list: without alt text, with one, or decorative
\* without one
ImageOfKind(k, kind) ==
    [FramerNode("n" \o ToString(k),
                (IF kind = "decorative" THEN "decorative image " ELSE "Image ") \o ToString(k))
     EXCEPT !.type = "image",
            !.alt = IF kind = "alt" THEN "A red bicycle" ELSE Undefined]

ImageKinds == {"bare", "alt", "decorative"}

\* the lists of up to MaxImages image nodes of these kinds, and three lists
\* with an empty or a short alt text
ImageLists ==
    UNION {{[k \in 1..n |-> ImageOfKind(k, kinds[k])] : kinds \in [1..n -> ImageKinds]} :
           n \in 0..MaxImages}
    \cup {<<ImageNode("n1", "Image 1", "image", alt, Undefined)>> : alt \in {"", "bike"}}
    \cup {<<ImageNode("n1", "Image 1", "image", "bike", Undefined),
            ImageNode("n2", "background image", "image", Undefined, Undefined),
            ImageNode("n3", "Image 3", "image", "", Undefined)>>}

InitImages == InitCheck(ImageLists)

ApplyCheckAltText == Apply("checkAltText", ImagesAnalyzer_checkAltText(page))

NextImages == ApplyCheckAltText

SpecImages == InitImages /\ [][NextImages]_vars

(***************************************************************************)
(* StructureAnalyzer.checkHeadingStructure.  A node without style.fontSize *)
(* has fontSize 0, which the checks treat alike.                           *)
(***************************************************************************)
StructureIssue(type, message, priority, elementId) ==
    Issue(type, message, "structure", priority, elementId)

IsH1Node(node) ==
    \/ toLowerCase(node.name) = "h1" \/ toLowerCase(node.name) = "heading1"
    \/ NameIncludes(node, "h1") \/ NameIncludes(node, "title")
    \/ node.fontSize >= 32

\* faulty variant: no node is taken for an H2
IsH2Node_Never(node) == FALSE

IsH2Node(node) ==
    \/ toLowerCase(node.name) = "h2" \/ toLowerCase(node.name) = "heading2"
    \/ NameIncludes(node, "h2") \/ NameIncludes(node, "subtitle")
    \/ (node.fontSize >= 24 /\ node.fontSize < 32)

IsH3Node(node) ==
    \/ toLowerCase(node.name) = "h3" \/ toLowerCase(node.name) = "heading3"
    \/ NameIncludes(node, "h3")
    \/ (node.fontSize >= 20 /\ node.fontSize < 24)

\* faulty variant: the first candidate, whatever its name
StructureAnalyzer_findMainH1_First(h1Nodes) == 1

\* findMainH1 on a non-empty list: the index of the node it returns
StructureAnalyzer_findMainH1(h1Nodes) ==
    LET mainTitleNode == FindIndex(h1Nodes, LAMBDA node :
                             \/ NameIncludes(node, "title")
                             \/ NameIncludes(node, "main")
                             \/ toLowerCase(node.name) = "h1")
    IN IF mainTitleNode # 0 THEN mainTitleNode ELSE 1

\* checkHeadingStructure, h1Nodes.forEach: the issues about one H1's text
StructureAnalyzer_h1TextIssues(node) ==
    LET headingText == OrElse(node.text, "") IN
    (IF Len(headingText) < 20
     THEN <<StructureIssue("info", "H1 heading is quite short", "important", node.id)>>
     ELSE <<>>)
    \o
    (IF Len(headingText) > 70
     THEN <<StructureIssue("warning", "H1 heading is too long", "important", node.id)>>
     ELSE <<>>)

StructureAnalyzer_checkHeadingStructure(pageNodes) ==
    LET h1Nodes == Filter(pageNodes, IsH1Node)
        h2Nodes == Filter(pageNodes, IsH2Node)
        h3Nodes == Filter(pageNodes, IsH3Node)
    IN (IF Len(h1Nodes) = 0
        THEN <<StructureIssue("error", "No H1 heading found on the page", "critical", NoId)>>
        ELSE IF Len(h1Nodes) > 1
        THEN LET potentialMainH1 == h1Nodes[StructureAnalyzer_findMainH1(h1Nodes)] IN
             <<StructureIssue("error",
                              "Multiple H1 headings found (" \o ToString(Len(h1Nodes)) \o ")",
                              "critical", NoId),
               StructureIssue("info",
                              "Consider keeping \""
                                 \o OrElse(potentialMainH1.text, potentialMainH1.name)
                                 \o "\" as your main H1",
                              "important", potentialMainH1.id)>>
        ELSE <<>>)
       \o
       (IF Len(h1Nodes) = 0 /\ Len(h2Nodes) > 0
        THEN <<StructureIssue("warning", "H2 headings found without an H1 heading",
                              "important", NoId)>>
        ELSE <<>>)
       \o FlatMap(Map(h1Nodes, StructureAnalyzer_h1TextIssues), Len(h1Nodes))
       \o
       (IF Len(h2Nodes) = 0 /\ Len(h3Nodes) > 0
        THEN <<StructureIssue("warning", "H3 headings found without H2 headings",
                              "important", NoId)>>
        ELSE <<>>)

\* a node of the given name, text and font size at position k of a page
HeadingNode(k, kind) ==
    [FramerNode("n" \o ToString(k), kind.name)
     EXCEPT !.text = kind.text, !.fontSize = kind.fontSize]

HeadingKind(name, text, fontSize) == [name |-> name, text |-> text, fontSize |-> fontSize]

HeadingKinds ==
    {HeadingKind("h1", Undefined, 0),
     HeadingKind("H1 Hero", "Welcome to the plugin shop", 0),
     HeadingKind("Page Title", Undefined, 0),
     HeadingKind("Main heading", Undefined, 40),
     HeadingKind("Main heading", Undefined, 0),
     HeadingKind("Heading", "Hello", 40),
     HeadingKind("Heading", Undefined, 16),
     HeadingKind("h2", Undefined, 0),
     HeadingKind("Caption", Undefined, 22),
     HeadingKind("Subtitle", Undefined, 0)}

\* the pages of up to three such nodes
HeadingPages ==
    UNION {{[k \in 1..n |-> HeadingNode(k, kinds[k])] : kinds \in [1..n -> HeadingKinds]} :
           n \in 0..3}

InitStructure == InitCheck(HeadingPages)

ApplyCheckHeadingStructure ==
    Apply("checkHeadingStructure", StructureAnalyzer_checkHeadingStructure(page))

NextStructure == ApplyCheckHeadingStructure

SpecStructure == InitStructure /\ [][NextStructure]_vars

(***************************************************************************)
(* Properties of the results analyzeNodes returns.                         *)
(***************************************************************************)
Returned == 1..Len(results)

PriorityCount(issues, priority) ==
    Cardinality({i \in 1..Len(issues) : issues[i].priority = priority})

\* the categories of a result whose issue list is non-empty
BusyCategories(result) ==
    {c \in SEOCategory : Len(result.categories[c].issues) > 0}

\* C1: every category score and the overall score of every returned result
\* lie in 0..100
C1_ScoresInRange ==
    \A r \in Returned :
        /\ results[r].score \in 0..100
        /\ \A c \in SEOCategory : results[r].categories[c].score \in 0..100

\* a returned result in which the deductions of one category exceed 100
C1_Witness ==
    \E r \in Returned : \E c \in SEOCategory :
        /\ PriorityCount(results[r].categories[c].issues, "critical") * 20 > 100
        /\ results[r].categories[c].score = 0
        /\ results[r].score = 0

\* C2: a category with c critical, i important and n nice-to-have issues
\* scores max(0, 100 - 20c - 10i - 5n), whatever the issues' types; one
\* critical issue alone gives 100 - 20
C2_PriorityScore ==
    \A r \in Returned : \A c \in SEOCategory :
        LET issues == results[r].categories[c].issues
            expected == 100 - 20 * PriorityCount(issues, "critical")
                            - 10 * PriorityCount(issues, "important")
                            - 5 * PriorityCount(issues, "nice-to-have")
        IN /\ results[r].categories[c].score = Max(0, expected)
           /\ (Len(issues) = 1 /\ issues[1].priority = "critical")
                 => results[r].categories[c].score = 80

\* a result with a category that holds one critical issue only, and a
\* category whose critical issues are warnings, not errors
C2_Witness ==
    \E r \in Returned : \E c, d \in SEOCategory :
        /\ Len(results[r].categories[c].issues) = 1
        /\ results[r].categories[c].issues[1].priority = "critical"
        /\ results[r].categories[c].issues[1].type = "error"
        /\ results[r].categories[c].score = 80
        /\ Len(results[r].categories[d].issues) > 1
        /\ results[r].categories[d].issues[1].priority = "critical"
        /\ results[r].categories[d].issues[1].type = "warning"
        /\ results[r].categories[d].score = 0

\* the weights of the claim, in tenths
ClaimedWeight10(c) ==
    CASE c = "metadata" -> 15
      [] c \in {"headings", "structure", "links", "content"} -> 12
      [] c = "security" -> 8
      [] c = "favicon" -> 5
      [] OTHER -> 10

RECURSIVE SumOfSet(_, _)
SumOfSet(f, S) ==
    IF S = {} THEN 0
    ELSE LET x == CHOOSE y \in S : TRUE IN f[x] + SumOfSet(f, S \ {x})

\* round(num / den), halves up, in exact arithmetic
ExactRound(num, den) == (2 * num + den) \div (2 * den)

\* C3: with at least one non-empty category the overall score is the
\* rounded weighted mean of the scores of exactly the non-empty categories
C3_WeightedMean ==
    \A r \in Returned :
        LET busy == BusyCategories(results[r])
            num == SumOfSet([c \in busy |->
                        ClaimedWeight10(c) * results[r].categories[c].score], busy)
            den == SumOfSet([c \in busy |-> ClaimedWeight10(c)], busy)
        IN busy # {} => results[r].score = ExactRound(num, den)

\* C4: a result without issues has overall score 100
C4_NoIssuesScore100 ==
    \A r \in Returned :
        Len(results[r].issues) = 0 => results[r].score = 100

\* a result for which checkers were run and none of them reported an issue
C4_Witness ==
    \E r \in Returned :
        /\ Len(results[r].ran) > 0
        /\ Len(results[r].issues) = 0
        /\ results[r].score = 100

\* C5: the flat issue list is as long as the category lists together
C5_IssueCount ==
    \A r \in Returned :
        Len(results[r].issues) =
            SumOfSet([c \in SEOCategory |-> Len(results[r].categories[c].issues)],
                     SEOCategory)

\* a result in which two categories hold issues
C5_Witness ==
    \E r \in Returned :
        /\ Cardinality(BusyCategories(results[r])) >= 2
        /\ Len(results[r].issues) >= 3

\* the registration order the claim names
ClaimedRegistrationOrder ==
    <<"metadata", "structure", "social", "images", "content", "accessibility",
      "links", "performance", "mobile", "security", "schema">>

RECURSIVE ConcatInOrder(_, _, _)
ConcatInOrder(cats, order, n) ==
    IF n = 0 THEN <<>>
    ELSE ConcatInOrder(cats, order, n - 1) \o cats[order[n]].issues

\* C6: the flat issue list is the concatenation of the category lists in
\* registration order
C6_Concatenation ==
    \A r \in Returned :
        results[r].issues =
            ConcatInOrder(results[r].categories, ClaimedRegistrationOrder,
                          Len(ClaimedRegistrationOrder))

\* a result with issues in social and in images (registered in that order,
\* keyed in the opposite order in the category map) and a list of several issues
C6_Witness ==
    \E r \in Returned :
        /\ Len(results[r].categories["social"].issues) > 0
        /\ Len(results[r].categories["images"].issues) > 0
        /\ \E c \in SEOCategory : Len(results[r].categories[c].issues) >= 2

\* C7: under a filter no checker outside the filter is run, every returned
\* issue is of a category in the filter, and the categories outside the
\* filter have empty issue lists
C7_FilterSelects ==
    filter.present =>
        /\ \A i \in 1..Len(ran) : ran[i] \in filter.cats
        /\ \A r \in Returned :
              /\ \A i \in 1..Len(results[r].ran) : results[r].ran[i] \in filter.cats
              /\ \A i \in 1..Len(results[r].issues) :
                    results[r].issues[i].category \in filter.cats
              /\ \A c \in SEOCategory \ filter.cats :
                    results[r].categories[c].issues = <<>>

\* a filtered result with issues, although a checker outside the filter
\* would have reported issues as well
C7_Witness ==
    /\ filter.present
    /\ \E r \in Returned :
          /\ Len(results[r].issues) > 0
          /\ \E c \in AnalyzerCategories \ filter.cats :
                Len(checkers[c].findings) > 0

\* C8 as stated: under a filter every category outside the filter keeps
\* the score 0
C8_FilteredScoreZero ==
    filter.present =>
        \A r \in Returned : \A c \in SEOCategory \ filter.cats :
            results[r].categories[c].score = 0

\* C8 amended: under a filter every category outside the filter is scored
\* like any empty category, 100
C8_FilteredScore100 ==
    filter.present =>
        \A r \in Returned : \A c \in SEOCategory \ filter.cats :
            results[r].categories[c].score = 100

\* a filtered result, with a checker outside the filter that would have
\* reported issues
C8_Witness ==
    /\ filter.present
    /\ \E r \in Returned : \E c \in AnalyzerCategories \ filter.cats :
          /\ Len(checkers[c].findings) > 0
          /\ results[r].categories[c].score = 100

\* an issue without its screenshot
WithoutScreenshot(issue) == [issue EXCEPT !.screenshot = NoScreenshot]

StripIssues(issues) == [i \in 1..Len(issues) |-> WithoutScreenshot(issues[i])]

\* a result without the screenshots of its issues
Comparable(result) ==
    [issues |-> StripIssues(result.issues),
     score |-> result.score,
     categories |-> [c \in SEOCategory |->
                        [issues |-> StripIssues(result.categories[c].issues),
                         score |-> result.categories[c].score]]]

\* C9: a call that returns after an earlier call with the same node list
\* and filter, the host having given both the same bounding-box answers,
\* returns the same issues in the same order and the same scores as the
\* earlier call, screenshots aside
C9_Deterministic ==
    [][(pc = "loop" /\ pc' = "done" /\ results # <<>>
        /\ results'[1].rects = results[1].rects)
          => Comparable(results'[1]) = Comparable(results[1])]_vars

\* a second call about to return, after the same bounding-box answer as in
\* the first call, with a position attached and a screenshot of another colour
C9_Witness ==
    /\ pc = "loop"
    /\ idx > Len(AnalyzerOrder)
    /\ results # <<>>
    /\ rectLog = results[1].rects
    /\ \E i \in 1..Len(allIssues) :
          /\ i <= Len(results[1].issues)
          /\ allIssues[i].elementPosition.set
          /\ allIssues[i].screenshot.kind = "preview"
          /\ results[1].issues[i].screenshot.kind = "preview"
          /\ allIssues[i].screenshot.color # results[1].issues[i].screenshot.color

\* C10: when a checker throws, the call is not aborted; it returns a result
\* without issues of that checker and with the issues of every other
\* selected checker
C10_CheckerFaultIsolated ==
    \A i \in 1..Len(ran) :
        checkers[ran[i]].throws =>
            /\ pc # "rejected"
            /\ pc = "done" =>
                  LET result == results[Len(results)] IN
                    /\ result.categories[ran[i]].issues = <<>>
                    /\ \A c \in AnalyzerCategories :
                          (~FilteredOut(c) /\ ~checkers[c].throws)
                             => Len(result.categories[c].issues) = Len(checkers[c].findings)

\* an issue as its checker returned it
WithoutVisualInfo(issue) ==
    [issue EXCEPT !.elementPosition = NoPosition, !.screenshot = NoScreenshot]

RECURSIVE IssuesOfSelected(_)
\* the issues of the first n registered checkers that pass the filter
IssuesOfSelected(n) ==
    IF n = 0 THEN <<>>
    ELSE IssuesOfSelected(n - 1) \o
         (IF FilteredOut(AnalyzerOrder[n]) THEN <<>>
          ELSE Analyze(checkers[AnalyzerOrder[n]], AnalyzerOrder[n]))

\* C11: a failing host call during the enrichment never rejects the call,
\* and whatever the host answers the result holds the issues of the
\* selected checkers, all of them and in their order
C11_EnrichmentFaultCaught ==
    /\ pc = "rejected" => (ran # <<>> /\ checkers[ran[Len(ran)]].throws)
    /\ \A r \in Returned :
          [i \in 1..Len(results[r].issues) |-> WithoutVisualInfo(results[r].issues[i])]
             = IssuesOfSelected(Len(AnalyzerOrder))

\* a result whose first issue met a failing getRect and stayed without
\* visual data, and whose second issue got its position although
\* zoomIntoView failed for it
C11_Witness ==
    \E r \in Returned :
        /\ Len(results[r].issues) = 2
        /\ results[r].rects = <<"fail", "rect">>
        /\ results[r].issues[1].screenshot = NoScreenshot
        /\ ~results[r].issues[1].elementPosition.set
        /\ results[r].issues[2].elementPosition.set
        /\ results[r].issues[2].screenshot.kind = "empty"

NoTextMessage == "No text content found on the page"

\* C12: a call with an empty node list is not rejected, and a result for
\* which the content checker was run holds, in the content category, the
\* critical error 'No text content found on the page'
C12_EmptyNodeList ==
    nodes = <<>> =>
        /\ pc # "rejected"
        /\ \A r \in Returned :
              (\E k \in 1..Len(results[r].ran) : results[r].ran[k] = "content") =>
                 \E i \in 1..Len(results[r].categories["content"].issues) :
                    /\ i <= Len(ContentAnalyzer(page))
                    /\ ContentAnalyzer(page)[i].message = NoTextMessage
                    /\ results[r].categories["content"].issues[i].type = "error"
                    /\ results[r].categories["content"].issues[i].priority = "critical"
                    /\ results[r].categories["content"].issues[i].category = "content"

\* a result of a call with an empty node list under the filter ['content']
C12_Witness ==
    /\ nodes = <<>>
    /\ filter = FilterOf({"content"})
    /\ \E r \in Returned :
          /\ results[r].ran = <<"content">>
          /\ Len(results[r].categories["content"].issues) = 2
          /\ results[r].categories["content"].issues[2].priority = "critical"
          /\ results[r].categories["content"].score = 70

\* the missing-alt error of the accessibility checker for a node
IsMissingAltFor(issue, node) ==
    /\ issue.elementId = node.id
    /\ issue.type = "error"
    /\ issue.priority = "critical"
    /\ StartsWith(issue.message, "Missing alt text")

\* C13: after the alt-text check of the accessibility checker, an image node
\* has a 'Missing alt text' error only if it has no alt attribute at all
\* and no aria-label; an image whose alt is the empty string has none
C13_EmptyAltNotFlagged ==
    checked = "checkImageAltText" =>
        \A n \in 1..Len(page) : \A i \in 1..Len(found) :
            IsMissingAltFor(found[i], page[n])
               => (page[n].alt = Undefined /\ ~Truthy(page[n].ariaLabel))


\* the precondition of C14 on one link: a non-empty relative href without a
\* placeholder or a marker, and an anchor text of at most 100 characters that
\* is not generic
WellFormedInternalLink(node) ==
    /\ Truthy(node.href) /\ LooksRelative(node.href)
    /\ node.href # "#" /\ node.href # "javascript:void(0)"
    /\ \A marker \in {"example.com", "placeholder", "dummy", "test", ".temp"} :
          ~Includes(node.href, marker)
    /\ Truthy(node.text) /\ Len(node.text) <= 100
    /\ ~Some(genericPhrases, LAMBDA phrase : Includes(toLowerCase(node.text), phrase))

ThreeGoodLinks ==
    /\ checked = "links" /\ Len(page) >= 3
    /\ \A k \in 1..Len(page) : WellFormedInternalLink(page[k])

OnlyClosingReminder == found = LinksAnalyzer_closingReminder

\* C14 as stated: at least three well-formed internal links whose anchor
\* texts are pairwise distinct make the links checker return the closing
\* reminder and nothing else.
C14_DistinctTextsOnlyReminder ==
    (ThreeGoodLinks /\ \A a, b \in 1..Len(page) : a # b => page[a].text # page[b].text)
       => OnlyClosingReminder

\* C14, amended: at least three well-formed internal links whose anchor texts
\* are pairwise distinct when lower-cased make the links checker return
\* exactly one issue, the info 'Verify all links work in production'.
C14_OnlyClosingReminder ==
    (ThreeGoodLinks /\ \A a, b \in 1..Len(page) :
                          a # b => toLowerCase(page[a].text) # toLowerCase(page[b].text))
       => /\ OnlyClosingReminder
          /\ \A k \in 1..Len(found) : found[k].type = "info"

C14_Witness ==
    /\ ThreeGoodLinks
    /\ \A a, b \in 1..Len(page) :
          a # b => toLowerCase(page[a].text) # toLowerCase(page[b].text)
    /\ Len(found) = 1 /\ found[1].message = "Verify all links work in production"

HasReminder ==
    \E k \in 1..Len(found) : found[k].message = "Verify all links work in production"

\* what checkBrokenLinks takes for a link
IsLinkNode(node) ==
    \/ Truthy(node.href) \/ NameIncludes(node, "link") \/ NameIncludes(node, "anchor")
    \/ node.role = "link"

\* C15 as stated: for every node list, also one without a link, the issues of
\* the links checker contain 'Verify all links work in production'.
C15_ReminderAlways == checked = "links" => HasReminder

\* C15, amended: the issues of the links checker contain 'Verify all links
\* work in production' exactly when the node list has a link; without one
\* the checker returns 'No links detected on the page' and nothing else.
C15_ReminderWhenLinks ==
    checked = "links" =>
       /\ HasReminder <=> \E k \in 1..Len(page) : IsLinkNode(page[k])
       /\ (\A k \in 1..Len(page) : ~IsLinkNode(page[k])) =>
             /\ Len(found) = 1 /\ found[1].message = "No links detected on the page"

C15_Witness ==
    /\ checked = "links" /\ Len(page) = 1 /\ ~IsLinkNode(page[1])
    /\ Len(found) = 1 /\ found[1].message = "No links detected on the page"


HasMessage(message) == \E k \in 1..Len(found) : found[k].message = message

\* the text of the first title node of the page, "" when it has none
TitleTextOf(pageNodes) ==
    LET t == pageNodes[FindIndex(pageNodes, IsTitleNode)].text
    IN IF t = Undefined THEN "" ELSE t

TitleNoDescription ==
    /\ checked = "metadata"
    /\ \E k \in 1..Len(page) : toLowerCase(page[k].name) = "title"
    /\ \A k \in 1..Len(page) : ~IsMetaNode(page[k], "description")

Shapes(issues) == Map(issues, LAMBDA issue : [type |-> issue.type, priority |-> issue.priority])

\* the tail of `issues` that starts after the first n
After(issues, n) == SubSeq(issues, n + 1, Len(issues))

\* the checker registered under `category` was run for the result
RanIn(result, category) == \E k \in 1..Len(result.ran) : result.ran[k] = category

\* C17: a result's category map has exactly one entry for each of the 14
\* categories; when 'metadata' passes the filter, categories.metadata.issues
\* is the issues of the metadata checker followed by the issues of the
\* international rules, all tagged 'metadata'; when it does not, neither ran
\* and the list is empty; categories.international.issues is always empty.
C17_CompositeMetadata ==
    \A n \in Returned :
       LET result == results[n]
           metadataIssues == result.categories["metadata"].issues
           existing == checkers["existingMetadataAnalyzer"].findings
           international == checkers["internationalAnalyzer"].findings
       IN /\ DOMAIN result.categories = SEOCategory
          /\ Cardinality(DOMAIN result.categories) = 14
          /\ result.categories["international"].issues = <<>>
          /\ \A k \in 1..Len(metadataIssues) : metadataIssues[k].category = "metadata"
          /\ IF FilteredOut("metadata")
             THEN metadataIssues = <<>> /\ ~RanIn(result, "metadata")
             ELSE /\ RanIn(result, "metadata")
                  /\ Len(metadataIssues) = Len(existing) + Len(international)
                  /\ Shapes(SubSeq(metadataIssues, 1, Len(existing))) = Shapes(existing)
                  /\ Shapes(After(metadataIssues, Len(existing))) = Shapes(international)

C17_Witness ==
    /\ results # <<>>
    /\ ~FilteredOut("metadata")
    /\ Len(checkers["existingMetadataAnalyzer"].findings) = 2
    /\ Len(checkers["internationalAnalyzer"].findings) = 2
    /\ Len(results[1].categories["metadata"].issues) = 4
    /\ results[1].categories["metadata"].issues[4].type = "error"


C25_RunSettles ==
    /\ [][(hook.step = "idle" /\ hook'.step # "idle") => hook'.isAnalyzing]_vars
    /\ [](hook.step \in {"collecting", "analyzing"} => hook.isAnalyzing)
    /\ (hook.isAnalyzing ~> (hook.step = "finished" /\ ~hook.isAnalyzing))
    /\ [](hook.step = "finished" => ~hook.isAnalyzing)
    /\ [][hook.step = "finished" => hook' = hook]_vars
    /\ [][hook'.stored # hook.stored =>
             (pc = "done" /\ hook'.step = "finished" /\ hook'.errors = 0)]_vars
    /\ [](pc = "rejected" /\ hook.step = "finished" => hook.errors > 0)

C25_Witness ==
    /\ hook.step = "finished"
    /\ ~hook.isAnalyzing
    /\ hook.errors = 1
    /\ pc = "rejected"
    /\ hook.collected = "failed"
    /\ \E m \in AnalysisModes : hook.stored[m] # <<>>


\* the analyzeNodes calls in flight in the plugin window
CallsInFlight ==
    (IF hook.step = "analyzing" THEN 1 ELSE 0)
    + (IF hook.download.calling THEN 1 ELSE 0)

\* C26 as stated: at most one analyzeNodes call started from the plugin
\* window is in flight at any time, and isAnalyzing is true whenever one is,
\* also for the calls Download Report makes for the modes without a result.
C26_OneCallAtATime ==
    /\ CallsInFlight <= 1
    /\ CallsInFlight >= 1 => hook.isAnalyzing


\* C27 as stated: a stored seoResults was computed by analyzeNodes with the
\* filter of the SEO mode (the checkers of its nine categories have run),
\* whichever action stored it.
C27_SeoFilter ==
    hook.stored["seo"] # <<>> =>
        hook.stored["seo"][1].ran = QuietResult(getFilterForMode("seo"))[1].ran


\* a step that ends a runAnalysis of the plugin window
RunEnds == hook.step = "analyzing" /\ hook'.step = "idle"

\* a step that starts one
RunStarts == hook.step = "idle" /\ hook'.step = "collecting"

\* C28: the result of a runAnalysis is stored in the slot of the mode that
\* was active when the run started and was computed with that mode's filter;
\* the active mode does not change while the run is under way; the run
\* leaves the result slots of the other two modes and the selected
\* categories of all modes as they were (Reanalyze empties the slot of the
\* active mode when it starts the run, and only that slot).
C28_RunFrame ==
    /\ [](hook.step \in {"collecting", "analyzing"} =>
            (hook.isAnalyzing /\ hook.runMode = hook.analysisMode))
    /\ [][hook.isAnalyzing => hook'.analysisMode = hook.analysisMode]_vars
    /\ [][RunStarts =>
            /\ hook'.runMode = hook.analysisMode
            /\ hook'.stored[hook.analysisMode] = <<>>
            /\ \A m \in AnalysisModes \ {hook.analysisMode} :
                   hook'.stored[m] = hook.stored[m]
            /\ hook'.category = hook.category]_vars
    /\ [][RunEnds =>
            /\ hook'.analysisMode = hook.runMode
            /\ \/ hook'.stored = hook.stored
               \/ /\ hook'.stored[hook.runMode] # <<>>
                  /\ hook'.stored[hook.runMode][1].ran =
                        SelectSeq(AnalyzerOrder, LAMBDA category :
                            category \in getFilterForMode(hook.runMode))
            /\ \A m \in AnalysisModes \ {hook.runMode} :
                   hook'.stored[m] = hook.stored[m]
            /\ hook'.category = hook.category]_vars

C28_Witness ==
    /\ hook.step = "analyzing"
    /\ hook.runMode = "links"
    /\ hook.stored["links"] = <<>>
    /\ hook.stored["seo"] # <<>>
    /\ hook.stored["accessibility"] # <<>>
    /\ hook.category["seo"] = "metadata"
    /\ hook.download.at = 0


\* C30 as stated: the report of a Download Report action holds a result for
\* each of the three modes, those that ensureAllCategoriesAnalyzed stored
\* during the action included.
C30_ReportComplete ==
    hook.report # <<>> => \A m \in AnalysisModes : hook.report[1][m] # <<>>


\* the issue list holds an issue of this type, message and priority
HasIssue(issues, type, message, priority) ==
    \E k \in 1..Len(issues) :
        /\ issues[k].type = type
        /\ issues[k].priority = priority
        /\ issues[k].message = message

ContrastWarnings(issues) ==
    SelectSeq(issues, LAMBDA issue :
        /\ issue.type = "warning"
        /\ issue.priority = "important"
        /\ StartsWith(issue.message, "Potential contrast issue in "))

\* C29: on every list of nodes (each with the name its type requires) the
\* accessibility checker returns at least two issues: the nice-to-have info
\* 'Consider using relative units for text sizing', always, and either a
\* contrast warning or the important info 'Verify color contrast in your
\* design'.  So whenever analyzeNodes has run the checker, the accessibility
\* category holds these issues and scores at most 85, and the overall score
\* of an analysis without a filter is below 100.
C29_AccessibilityNeverClean ==
    /\ (pc = "idle" /\ ~Nameless(page)) =>
          LET issues == AccessibilityAnalyzer(page)
          IN /\ Len(issues) >= 2
             /\ HasIssue(issues, "info", "Consider using relative units for text sizing",
                         "nice-to-have")
             /\ Len(ContrastWarnings(issues)) = 0 <=>
                   HasIssue(issues, "info", "Verify color contrast in your design",
                            "important")
             /\ calculateScoreForCategory(issues) <= 85
    /\ (results # <<>> /\ ~FilteredOut("accessibility")) =>
          /\ ~Nameless(page)
          /\ RanIn(results[1], "accessibility")
          /\ LET issues == AccessibilityAnalyzer(page)
             IN /\ Shapes(results[1].categories["accessibility"].issues) = Shapes(issues)
                /\ results[1].categories["accessibility"].score
                      = calculateScoreForCategory(issues)
          /\ Len(results[1].categories["accessibility"].issues) >= 2
          /\ results[1].categories["accessibility"].score <= 85
          /\ ~filter.present => results[1].score < 100

\* the cleanest page: only the two issues that are always there, 85 points
C29_Witness ==
    /\ results # <<>>
    /\ ~filter.present
    /\ Len(page) = 2
    /\ Len(results[1].categories["accessibility"].issues) = 2
    /\ results[1].categories["accessibility"].score = 85
    /\ results[1].score = 85
    /\ \A c \in SEOCategory \ {"accessibility"} : results[1].categories[c].issues = <<>>


\* the image nodes of the page that lack alt text and are not decorative
Offenders == SelectSeq(page, LAMBDA node : ~Truthy(node.alt) /\ NotDecorative(node))

\* the issues about missing alt text among the issues found
MissingAltIssues ==
    SelectSeq(found, LAMBDA issue :
        Includes(issue.message, "without alt text") \/ Includes(issue.message, "missing alt text"))

Min(a, b) == IF a < b THEN a ELSE b

\* C19: with k >= 1 non-decorative images without alt text the alt-text check
\* of the images checker emits one critical error with the count k, then one
\* info issue for each of the first min(k, 5) of them in input order, then
\* the summary 'And k-5 more images without alt text' if and only if k > 5:
\* 1 + min(k, 5) + (1 if k > 5) issues; with k = 0 it emits none.
C19_MissingAltIssues ==
    checked = "checkAltText" =>
       LET k == Len(Offenders)
           missing == MissingAltIssues
       IN IF k = 0 THEN missing = <<>>
          ELSE /\ Len(missing) = 1 + Min(k, 5) + (IF k > 5 THEN 1 ELSE 0)
               /\ SubSeq(found, 1, Len(missing)) = missing
               /\ missing[1].type = "error" /\ missing[1].priority = "critical"
               /\ StartsWith(missing[1].message, ToString(k) \o " image")
               /\ \A i \in 1..Min(k, 5) :
                     /\ missing[1 + i].type = "info"
                     /\ missing[1 + i].elementId = Offenders[i].id
                     /\ missing[1 + i].message
                           = "Image '" \o Offenders[i].name \o "' is missing alt text"
               /\ (\E i \in 1..Len(found) : StartsWith(found[i].message, "And ")) <=> k > 5
               /\ k > 5 =>
                     /\ missing[7].type = "info"
                     /\ missing[7].message
                           = "And " \o ToString(k - 5) \o " more images without alt text"

C19_Witness ==
    /\ checked = "checkAltText"
    /\ Len(Offenders) = 7
    /\ Len(MissingAltIssues) = 7
    /\ MissingAltIssues[7].message = "And 2 more images without alt text"


\* the ids of the nodes that 'Consider keeping ... as your main H1' issues name
SuggestedMainH1 ==
    {found[k].elementId : k \in {i \in 1..Len(found) :
                                    StartsWith(found[i].message, "Consider keeping ")}}

H1Like == SelectSeq(page, IsH1Node)

\* the id of the first node of `candidates` that satisfies Preferred, else of
\* the first node
FirstPreferred(candidates, Preferred(_)) ==
    IF \E i \in 1..Len(candidates) : Preferred(candidates[i])
    THEN candidates[CHOOSE i \in 1..Len(candidates) :
                       /\ Preferred(candidates[i])
                       /\ \A k \in 1..(i - 1) : ~Preferred(candidates[k])].id
    ELSE candidates[1].id

\* C20 as stated: with more than one H1-like node the suggestion names the
\* first H1-like node whose lower-cased name contains 'title', 'main' or
\* 'h1', and the first H1-like node if there is none.
C20_MainH1NameContains ==
    (checked = "checkHeadingStructure" /\ Len(H1Like) > 1) =>
       SuggestedMainH1 =
          {FirstPreferred(H1Like, LAMBDA node :
               \/ Includes(toLowerCase(node.name), "title")
               \/ Includes(toLowerCase(node.name), "main")
               \/ Includes(toLowerCase(node.name), "h1"))}

\* C20, amended: with more than one H1-like node the suggestion names the
\* first H1-like node whose lower-cased name contains 'title' or 'main' or
\* is exactly 'h1', and the first H1-like node if there is none.
C20_MainH1 ==
    (checked = "checkHeadingStructure" /\ Len(H1Like) > 1) =>
       SuggestedMainH1 =
          {FirstPreferred(H1Like, LAMBDA node :
               \/ Includes(toLowerCase(node.name), "title")
               \/ Includes(toLowerCase(node.name), "main")
               \/ toLowerCase(node.name) = "h1")}

C20_Witness ==
    /\ checked = "checkHeadingStructure"
    /\ Len(page) = 3 /\ Len(H1Like) = 3
    /\ page[1].name = "H1 Hero" /\ page[2].name = "Heading" /\ page[3].name = "Page Title"
    /\ SuggestedMainH1 = {"n3"}


\* the nodes of the page that pass for an H1: named h1 or heading1, a name
\* that contains h1 or title, or a font size of at least 32
CountH1Like ==
    Cardinality({k \in 1..Len(page) :
        \/ Includes(toLowerCase(page[k].name), "h1")
        \/ toLowerCase(page[k].name) = "heading1"
        \/ Includes(toLowerCase(page[k].name), "title")
        \/ page[k].fontSize >= 32})

\* the nodes that pass for an H2: a name that is heading2 or contains h2 or
\* subtitle, or a font size from 24 up to 32
CountH2Like ==
    Cardinality({k \in 1..Len(page) :
        \/ Includes(toLowerCase(page[k].name), "h2")
        \/ toLowerCase(page[k].name) = "heading2"
        \/ Includes(toLowerCase(page[k].name), "subtitle")
        \/ (page[k].fontSize >= 24 /\ page[k].fontSize < 32)})

\* the issues found whose message starts with `prefix`
IssuesStarting(prefix) ==
    SelectSeq(found, LAMBDA issue : StartsWith(issue.message, prefix))

\* C21: the heading check emits the critical error 'No H1 heading found'
\* exactly when no node is H1-like, the critical error 'Multiple H1 headings
\* found' with exactly one 'main H1' suggestion exactly when more than one
\* is, neither when exactly one is, and the warning 'H2 headings found
\* without an H1' exactly when no node is H1-like and some node is H2-like.
C21_HeadingCounts ==
    checked = "checkHeadingStructure" =>
       LET none == IssuesStarting("No H1 heading found")
           multiple == IssuesStarting("Multiple H1 headings found")
           suggestion == IssuesStarting("Consider keeping ")
           h2 == IssuesStarting("H2 headings found without an H1")
       IN /\ Len(none) = (IF CountH1Like = 0 THEN 1 ELSE 0)
          /\ Len(multiple) = (IF CountH1Like > 1 THEN 1 ELSE 0)
          /\ Len(suggestion) = (IF CountH1Like > 1 THEN 1 ELSE 0)
          /\ Len(h2) = (IF CountH1Like = 0 /\ CountH2Like > 0 THEN 1 ELSE 0)
          /\ \A k \in 1..Len(none) : none[k].type = "error" /\ none[k].priority = "critical"
          /\ \A k \in 1..Len(multiple) :
                multiple[k].type = "error" /\ multiple[k].priority = "critical"
          /\ \A k \in 1..Len(h2) : h2[k].type = "warning"

C21_Witness ==
    /\ checked = "checkHeadingStructure"
    /\ CountH1Like = 0 /\ CountH2Like = 2
    /\ Len(IssuesStarting("No H1 heading found")) = 1
    /\ Len(IssuesStarting("H2 headings found without an H1")) = 1


\* every issue of the checker run last has been through the enrichment
EnrichmentComplete == Len(enrichedIssues) = Len(categoryIssues)

\* C22: within one call a checker is started only when the enrichment of
\* the checker before it is complete; the host is asked about an issue only
\* when every issue before it in the checker's list has been handled, and
\* it is asked about the issues one after the other in their order; the
\* scores are computed only when every selected checker has been run and its
\* enrichment is complete.
C22_Sequential ==
    [][/\ (Len(ran') > Len(ran) /\ ran # <<>>) => (pc = "loop" /\ EnrichmentComplete)
       /\ Len(rectLog') > Len(rectLog) =>
             /\ pc = "enrich"
             /\ j = Len(enrichedIssues) + 1
             /\ Len(enrichedIssues') = j
             /\ WithoutVisualInfo(enrichedIssues'[j]) = WithoutVisualInfo(categoryIssues[j])
             /\ SubSeq(enrichedIssues', 1, j - 1) = enrichedIssues
             /\ Len(rectLog') = Len(rectLog) + 1
       /\ (pc # "done" /\ pc' = "done") =>
             /\ EnrichmentComplete
             /\ \A c \in AnalyzerCategories :
                   ~FilteredOut(c) => \E k \in 1..Len(ran) : ran[k] = c
             /\ idx > Len(AnalyzerOrder)]_vars

\* the second issue of a checker is about to be handled, the host call for
\* the first one has been answered
C22_Witness ==
    /\ pc = "enrich"
    /\ Len(categoryIssues) = 2
    /\ j = 2
    /\ Len(enrichedIssues) = 1
    /\ Len(rectLog) = 1


\* the issue names a node of the analysed node list
NamesNode(issue) ==
    issue.elementId # NoId /\ \E k \in 1..Len(nodes) : nodes[k] = issue.elementId

\* C23: the enrichment hands on the checker's issues in their number and
\* order; it changes nothing but elementPosition and screenshot of an issue,
\* and those only for an issue whose elementId is the id of a node of the
\* node list; for any other issue the host is not called and the issue stays
\* as it was.
C23_EnrichmentFrame ==
    [][/\ Len(enrichedIssues') > Len(enrichedIssues) =>
             LET before == categoryIssues[Len(enrichedIssues')]
                 after == enrichedIssues'[Len(enrichedIssues')]
             IN /\ SubSeq(enrichedIssues', 1, Len(enrichedIssues)) = enrichedIssues
                /\ Len(enrichedIssues') = Len(enrichedIssues) + 1
                /\ WithoutVisualInfo(after) = WithoutVisualInfo(before)
                /\ ~NamesNode(before) => (after = before /\ rectLog' = rectLog)
       /\ (pc = "enrich" /\ pc' = "loop") =>
             /\ Len(enrichedIssues) = Len(categoryIssues)
             /\ categories'[AnalyzerOrder[idx]].issues = enrichedIssues]_vars

\* the enrichment has given the first issue of a checker a position and
\* left the second one, which names no element, as it was
C23_Witness ==
    /\ pc = "enrich"
    /\ Len(enrichedIssues) = 2
    /\ enrichedIssues[1].elementPosition.set
    /\ enrichedIssues[1].screenshot # NoScreenshot
    /\ categoryIssues[2].elementId = NoId
    /\ enrichedIssues[2] = categoryIssues[2]


\* C24: a call leaves the node list as it is, and in a result the issues and
\* the score of a category whose checker passed the filter are those of
\* that checker on the node list alone, whatever the filter and whatever
\* the other checkers found: so they are the same under every filter that
\* contains the category and under no filter.
C24_CheckersIndependent ==
    [][/\ nodes' = nodes
       /\ checkers' = checkers
       /\ (pc # "done" /\ pc' = "done") =>
             \A c \in AnalyzerCategories :
                ~FilteredOut(c) =>
                   LET own == Analyze(checkers[c], c)
                       got == results'[1].categories[c]
                   IN /\ [k \in 1..Len(got.issues) |-> WithoutVisualInfo(got.issues[k])] = own
                      /\ got.score = calculateScoreForCategory(own)]_vars

\* a result under a filter in which the metadata checker and the social
\* checker both hold issues
C24_Witness ==
    /\ results # <<>>
    /\ filter.present
    /\ Len(results[1].categories["metadata"].issues) >= 2
    /\ Len(results[1].categories["social"].issues) = 1
    /\ results[1].categories["social"].score < 100

====
